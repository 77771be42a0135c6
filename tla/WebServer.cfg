SPECIFICATION Spec
CONSTANTS
  Documented = {all, power, reset}
  Restart = reset
  Elsewhere = elsewhere
INVARIANT DocumentedIsServed
