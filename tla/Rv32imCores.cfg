SPECIFICATION Spec
INVARIANTS HonestRowsAccepted AcceptedRowsExecute ModesAgree
