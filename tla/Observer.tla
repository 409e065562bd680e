------------------------------ MODULE Observer ------------------------------
(* Observer.h: a subject that keeps weak pointers to its observers.  notify  *)
(* is the loop it is in the code, as an observer's update may drop the last  *)
(* shared_ptr to another; an update that called attach or detach itself      *)
(* would invalidate the loop's iterators and is not modelled.                 *)
EXTENDS Object, Integers, Sequences, SequencesExt

CONSTANTS Observers, MaxAttached     \* bound on the entries of the vector

(* i is the position notify has reached, 0 outside of it; alive are the      *)
(* observers some shared_ptr still owns; told counts the updates of the      *)
(* current notification (history).                                            *)
Init == /\ this = [observers |-> <<>>, alive |-> Observers, i |-> 0, told |-> [o \in Observers |-> 0]]
        /\ call = <<"Subject">> /\ returned = void

attach(o) ==
  /\ this.i = 0 /\ o \in this.alive /\ Len(this.observers) < MaxAttached
  /\ this' = [this EXCEPT !.observers = Append(@, o)]
  /\ Called(<<"attach", o>>, void)

(* the first entry whose lock() gives this observer *)
detach(o) ==
  /\ this.i = 0 /\ o \in this.alive
  /\ this' = [this EXCEPT !.observers = RemoveFirst(@, o)]
  /\ Called(<<"detach", o>>, void)

(* the entries remove_if leaves, then the loop *)
notify ==
  /\ this.i = 0
  /\ this' = [this EXCEPT !.observers = SelectSeq(@, LAMBDA o : o \in this.alive), !.i = 1,
                          !.told = [o \in Observers |-> 0]]
  /\ Called(<<"notify">>, void)

(* Seeded fault: an observer that has gone ends the loop. *)
UpdateOrBreak ==
  LET o == this.observers[this.i]
  IN /\ this.i \in DOMAIN this.observers
     /\ \E gone \in SUBSET (this.alive \ {o}) :
          this' = IF o \in this.alive
                  THEN [this EXCEPT !.i = @ + 1, !.alive = @ \ gone, !.told[o] = @ + 1]
                  ELSE [this EXCEPT !.i = Len(this.observers) + 1]
     /\ Called(<<"update", o>>, void)

(* one turn of the loop, with the observers that end during the update *)
update ==
  LET o == this.observers[this.i]
  IN /\ this.i \in DOMAIN this.observers
     /\ \E gone \in SUBSET (this.alive \ {o}) :
          this' = IF o \in this.alive
                  THEN [this EXCEPT !.i = @ + 1, !.alive = @ \ gone, !.told[o] = @ + 1]
                  ELSE [this EXCEPT !.i = @ + 1]
     /\ Called(<<"update", o>>, void)

finish ==
  /\ this.i = Len(this.observers) + 1
  /\ this' = [this EXCEPT !.i = 0]
  /\ Called(<<"notified">>, void)

(* the owner drops its shared_ptr *)
release(o) ==
  /\ this.i = 0 /\ o \in this.alive
  /\ this' = [this EXCEPT !.alive = @ \ {o}]
  /\ Called(<<"release", o>>, void)

Next == (\E o \in Observers : attach(o) \/ detach(o) \/ release(o)) \/ notify \/ update \/ finish

-----------------------------------------------------------------------------
Attachments(o) == Cardinality({i \in DOMAIN this.observers : this.observers[i] = o})

(* At the end of a notification every observer that is still there was       *)
(* updated once for each time it is attached, whichever others went while it *)
(* ran; and no update is made of one that has gone.                           *)
Promise ==
  /\ call'[1] = "notified" => \A o \in this.alive : this.told[o] = Attachments(o)
  /\ \A o \in Observers : this.told[o]' > this.told[o] => o \in this.alive

=============================================================================
