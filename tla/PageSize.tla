------------------------------ MODULE PageSize -------------------------------
(***************************************************************************)
(* The page size of src/memory.rs, which src/paging.rs imports.            *)
(***************************************************************************)

CONSTANT PAGE_SIZE   \* bytes in a frame and in a page: 4096

=============================================================================
