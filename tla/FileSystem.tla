----------------------------- MODULE FileSystem -----------------------------
(* FileSystem.h: the entries of one directory.  current never leaves root,   *)
(* so the directories made in it stay empty.                                  *)
EXTENDS Object, TLC

CONSTANT Names

(* children: the entries by name; a node also keeps the name it was made with *)
Init == this = <<>> /\ call = <<"FileSystem">> /\ returned = void

Create(name, dir) ==
  this' = IF name \in DOMAIN this THEN this ELSE (name :> [name |-> name, is_dir |-> dir]) @@ this

mkdir(name) == Create(name, TRUE) /\ Called(<<"mkdir", name>>, name \notin DOMAIN this)
createFile(name) == Create(name, FALSE) /\ Called(<<"createFile", name>>, name \notin DOMAIN this)

(* Seeded fault: the destination is overwritten. *)
Overwritable(source, dest) == source \in DOMAIN this

Movable(source, dest) == source \in DOMAIN this /\ dest \notin DOMAIN this

move(source, dest) ==
  /\ this' = IF Movable(source, dest)
             THEN (dest :> this[source]) @@ [n \in DOMAIN this \ {source} |-> this[n]] ELSE this
  /\ Called(<<"move", source, dest>>, Movable(source, dest))

(* What is printed, without its layout: whether a directory, and the name. *)
Listing == {<<this[n].is_dir, n>> : n \in DOMAIN this}
Tree == {<<this[n].is_dir, IF this[n].is_dir THEN this[n].name ELSE n>> : n \in DOMAIN this}

ls == Called(<<"ls">>, Listing) /\ UNCHANGED this
printTree == Called(<<"printTree">>, Tree) /\ UNCHANGED this

Next == \/ \E name \in Names : mkdir(name) \/ createFile(name) \/ \E dest \in Names : move(name, dest)
        \/ ls \/ printTree

-----------------------------------------------------------------------------
(* No call loses an entry or changes its kind: creating adds the one entry   *)
(* and only if the name is free, moving renames the one entry, and what ls   *)
(* prints is the outcome.  printTree prints the files under the same names.  *)
Promise ==
  LET taken(n) == \E e \in Listing : e[2] = n
  IN CASE call'[1] \in {"mkdir", "createFile"} ->
            /\ returned' = ~taken(call'[2])
            /\ Listing' = IF taken(call'[2]) THEN Listing
                          ELSE Listing \cup {<<call'[1] = "mkdir", call'[2]>>}
       [] call'[1] = "move" ->
            /\ returned' = (taken(call'[2]) /\ ~taken(call'[3]))
            /\ Listing' = IF ~returned' THEN Listing
                          ELSE {IF e[2] = call'[2] THEN <<e[1], call'[3]>> ELSE e : e \in Listing}
       [] call'[1] = "ls" -> UNCHANGED this /\ returned' = Listing
       [] call'[1] = "printTree" ->
            UNCHANGED this /\ \A e \in Listing : ~e[1] => e \in returned'

=============================================================================
