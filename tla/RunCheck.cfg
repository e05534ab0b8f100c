SPECIFICATION Spec
CONSTANTS
  Desired <- TwoFuncs
  Args <- ArgsOf
  Inputs <- InputsOf
  Type <- TypeOf
  Inside <- InsideOf
  X87 = TRUE
  Noise = 1
INVARIANTS GradedRunsAreComplete BuffersFaithful ProtocolKept VerdictsExact BlamesRootCause CrashBlamed
