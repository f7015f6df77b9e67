CHECK_DEADLOCK FALSE
SPECIFICATION Spec
INVARIANTS HonestRowsAccepted AcceptedRowsExecute ModesAgree
