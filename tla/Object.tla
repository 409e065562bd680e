------------------------------- MODULE Object -------------------------------
(* What the components that one thread uses have in common: the object, and  *)
(* the last call made of it with what that call returned.  A call is a tuple *)
(* of the member function's name and its arguments.                          *)
CONSTANTS void,        \* what a function returns that returns nothing
          threw        \* an exception

VARIABLES this,        \* the object's members
          call,        \* the last call
          returned     \* what it returned

vars == <<call, this, returned>>

Called(f, answer) == call' = f /\ returned' = answer

=============================================================================
