SPECIFICATION Spec
INVARIANT MenuReturns
