------------------------- MODULE OrderStateMachine -------------------------
(***************************************************************************)
(* The order status machine of internal/orders/state_machine.go and the    *)
(* inference of the expected status of internal/orders/service.go, as      *)
(* operators.  A Go error is the name of its sentinel, "nil" when absent.  *)
(***************************************************************************)

StatusPending    == "PENDING"
StatusProcessing == "PROCESSING"
StatusShipped    == "SHIPPED"
StatusDelivered  == "DELIVERED"
StatusCancelled  == "CANCELLED"

\* The empty Go string and the SQL NULL that nullStatus makes of it.
NoStatus == "NONE"

validStatuses == {StatusPending, StatusProcessing, StatusShipped,
                  StatusDelivered, StatusCancelled}

allowedTransitions == {<<StatusPending, StatusProcessing>>,
                       <<StatusPending, StatusCancelled>>,
                       <<StatusProcessing, StatusShipped>>,
                       <<StatusShipped, StatusDelivered>>}

IsValidStatus(status) == status \in validStatuses

CanTransition(from, to) ==
  /\ IsValidStatus(from)
  /\ IsValidStatus(to)
  /\ <<from, to>> \in allowedTransitions

ValidateTransition(from, to) ==
  IF ~IsValidStatus(from) \/ ~IsValidStatus(to) THEN "ErrUnknownStatus"
  ELSE IF ~CanTransition(from, to) THEN "ErrInvalidTransition"
  ELSE "nil"

\* The status half of expectedStatusForTarget: the only status from which the
\* status endpoint tries to reach target.
expectedStatusForTarget(target) ==
  IF target \in {StatusProcessing, StatusCancelled} THEN StatusPending
  ELSE IF target = StatusShipped THEN StatusProcessing
  ELSE IF target = StatusDelivered THEN StatusShipped
  ELSE NoStatus

\* The error half: every other target is validated as a move out of PENDING.
expectedStatusError(target) ==
  IF expectedStatusForTarget(target) # NoStatus
  THEN "nil"
  ELSE ValidateTransition(StatusPending, target)
=============================================================================
