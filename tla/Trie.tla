-------------------------------- MODULE Trie --------------------------------
(* Trie.h.  A node is owned by one parent under one character, so the path   *)
(* from the root names it: the tree is a set of paths closed under prefixes, *)
(* with the set of those where is_end holds.                                  *)
EXTENDS Object, Integers, Sequences, SequencesExt

CONSTANT Words             \* the words that are inserted, looked up and deleted

Init == /\ this = [nodes |-> {<<>>}, is_end |-> {}]
        /\ call = <<"Trie">> /\ returned = void

(* node->children, for the tree t *)
Children(t, node) == {n \in t.nodes : Len(n) = Len(node) + 1 /\ IsPrefix(node, n)}

(* Seeded fault: a node that is a word of its own goes with its last child. *)
Childless(t, node) == Children(t, node) = {}

(* whether a node that lost a child is to go as well *)
Barren(t, node) == node \notin t.is_end /\ Children(t, node) = {}

Insert(word) ==
  /\ this' = [nodes |-> this.nodes \cup Prefixes(word), is_end |-> this.is_end \cup {word}]
  /\ Called(<<"insert", word>>, void)

(* following the characters fails, or ends in a node *)
search(word) == word \in this.nodes /\ word \in this.is_end

Search(word) == Called(<<"search", word>>, search(word)) /\ UNCHANGED this

(* deleteHelper for the first index characters of the word: the tree, and    *)
(* whether the parent is to erase the node.  erase(c) takes the subtree along. *)
RECURSIVE deleteHelper(_, _, _)
deleteHelper(t, word, index) ==
  LET now == SubSeq(word, 1, index)
      child == SubSeq(word, 1, index + 1)
  IN IF index = Len(word)
     THEN IF now \notin t.is_end THEN [tree |-> t, shouldDelete |-> FALSE]
          ELSE [tree |-> [t EXCEPT !.is_end = @ \ {now}], shouldDelete |-> Children(t, now) = {}]
     ELSE IF child \notin t.nodes THEN [tree |-> t, shouldDelete |-> FALSE]
     ELSE LET below == deleteHelper(t, word, index + 1)
              u == [nodes |-> {n \in below.tree.nodes : ~IsPrefix(child, n)},
                    is_end |-> {n \in below.tree.is_end : ~IsPrefix(child, n)}]
          IN IF below.shouldDelete
             THEN [tree |-> u, shouldDelete |-> Barren(u, now)]
             ELSE [tree |-> below.tree, shouldDelete |-> FALSE]

DeleteWord(word) ==
  /\ this' = deleteHelper(this, word, 0).tree
  /\ Called(<<"deleteWord", word>>, search(word))

(* collectWords; the order of an unordered_map is left open *)
RECURSIVE collectWords(_, _)
collectWords(t, node) ==
  (IF node \in t.is_end THEN {node} ELSE {}) \cup UNION {collectWords(t, n) : n \in Children(t, node)}

GetAllWords == Called(<<"getAllWords">>, collectWords(this, <<>>)) /\ UNCHANGED this

Next == GetAllWords \/ \E word \in Words : Insert(word) \/ Search(word) \/ DeleteWord(word)

-----------------------------------------------------------------------------
(* Every node but the root leads to a word: deleting a word leaves no branch *)
(* behind that nothing uses, and loses none that another word needs.          *)
Sound == /\ this.is_end \subseteq this.nodes
         /\ \A n \in this.nodes \ {<<>>} : Front(n) \in this.nodes /\ collectWords(this, n) # {}

(* The trie is the set of the words that were inserted and not deleted.       *)
Promise ==
  LET words == collectWords(this, <<>>)
      word == call'[2]
  IN CASE call'[1] = "insert"      -> collectWords(this, <<>>)' = words \cup {word}
       [] call'[1] = "deleteWord"  -> /\ collectWords(this, <<>>)' = words \ {word}
                                      /\ returned' = (word \in words)
       [] call'[1] = "search"      -> UNCHANGED this /\ returned' = (word \in words)
       [] call'[1] = "getAllWords" -> UNCHANGED this /\ returned' = this.is_end

=============================================================================
