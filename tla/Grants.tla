-------------------------------- MODULE Grants -------------------------------
(***************************************************************************)
(* The capabilities that bootstrap of src/runtime.rs hands out, and before *)
(* it, to a store of its own, the self-test of kernel_main: the root task  *)
(* owns the UART and the endpoint, the console may write to the first and  *)
(* the app to the second.                                                  *)
(***************************************************************************)
EXTENDS Authorize

ROOT_TASK == 0
CONSOLE_TASK == 1
APP_TASK == 2
UART_SLOT == 0
ENDPOINT_SLOT == 1

\* Object::Endpoint(0) and the UART's Object::Mmio
EndpointObject == [type |-> "Endpoint", id |-> 0]
UartObject == [type |-> "Mmio", id |-> 0]

\* The store after each of the four calls.
UartMade == CreateRootStore(EmptyStore, ROOT_TASK, UART_SLOT, UartObject, Right)
UartGranted ==
  MintStore(UartMade, ROOT_TASK, UART_SLOT, CONSOLE_TASK, UART_SLOT, {"WRITE"})
EndpointMade ==
  CreateRootStore(UartGranted, ROOT_TASK, ENDPOINT_SLOT, EndpointObject, Right)
Granted ==
  MintStore(EndpointMade, ROOT_TASK, ENDPOINT_SLOT, APP_TASK, ENDPOINT_SLOT, {"WRITE"})

\* Whether all four succeed; both callers unwrap the result.
GrantsSucceed ==
  /\ CreateRootError(EmptyStore, ROOT_TASK, UART_SLOT) = "Ok"
  /\ MintError(UartMade, ROOT_TASK, UART_SLOT, CONSOLE_TASK, UART_SLOT,
               {"WRITE"}) = "Ok"
  /\ CreateRootError(UartGranted, ROOT_TASK, ENDPOINT_SLOT) = "Ok"
  /\ MintError(EndpointMade, ROOT_TASK, ENDPOINT_SLOT, APP_TASK, ENDPOINT_SLOT,
               {"WRITE"}) = "Ok"

=============================================================================
