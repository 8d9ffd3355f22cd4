------------------------------- MODULE Config -------------------------------
(***************************************************************************)
(* ConfigVar<T> and Config: one variable, as a record, with its listeners. *)
(* type is the T it was created with ("none" before Lookup creates it),    *)
(* listeners maps keys to what the callback does:                          *)
(*    "observe"  remembers the new value it is given, in told              *)
(*    "clamp"    calls SetValue(Limit) when the new value is above Limit   *)
(*    "reject"   throws when the new value is above Limit                  *)
(*    "empty"    the empty std::function that GetListener leaves under a   *)
(*               key it does not find: calling it throws                   *)
(* crossed is a history: a listener has acted against the latest change.   *)
(***************************************************************************)
EXTENDS Integers, Sequences

CONSTANTS
    MaxKey,    \* listener keys are 1 .. MaxKey
    Limit,     \* what the listeners of this model insist on
    None

Keys == 1 .. MaxKey
Kinds == {"observe", "clamp", "reject"}
AllKinds == Kinds \cup {"empty"}

ASSUME ConfigAssumption == MaxKey \in Nat /\ Limit \in Nat /\ None \notin AllKinds

NoListeners == [k \in Keys |-> None]

NewVar == [type |-> "none", value |-> 0, listeners |-> NoListeners,
           told |-> NoListeners, crossed |-> FALSE]

Tell(c, k, v) ==
    IF c.listeners[k] = "observe" THEN [c EXCEPT !.told[k] = v] ELSE c

\* An empty listener has a key below k.
EmptyBelow(c, k) == \E e \in Keys : e < k /\ c.listeners[e] = "empty"

\* The observers that SetValue(v) comes to are told, the others keep what they know.
ToldUpToEmpty(c, v) ==
    [k \in Keys |-> IF c.listeners[k] = "observe" /\ ~EmptyBelow(c, k) THEN v ELSE c.told[k]]

\* SetValue(Limit) from within a listener: no other listener minds it, but an
\* empty one throws, and then nothing is stored.
NestedSet(c) ==
    IF c.value = Limit THEN [var |-> c, thrown |-> FALSE]
    ELSE [var |-> [c EXCEPT !.told = ToldUpToEmpty(c, Limit),
                            !.value = IF EmptyBelow(c, MaxKey + 1) THEN @ ELSE Limit],
          thrown |-> EmptyBelow(c, MaxKey + 1)]

\* A listener is called with the new value, before value_ has it.  A nested
\* SetValue runs all listeners and stores its value.
Call(s, k, v) ==
    LET kind == s.var.listeners[k]
    IN  IF s.thrown THEN s
        ELSE IF kind = "empty" \/ (kind = "reject" /\ v > Limit)
        THEN [var |-> [s.var EXCEPT !.crossed = TRUE], thrown |-> TRUE]
        ELSE IF kind = "clamp" /\ v > Limit
        THEN [NestedSet(s.var) EXCEPT !.var.crossed = TRUE]
        ELSE [s EXCEPT !.var = Tell(@, k, v)]

\* The variable after the listeners of keys 1 .. n, in the order of std::map.
Called(c, v) ==
    LET after[n \in 0 .. MaxKey] ==
          IF n = 0 THEN [var |-> [c EXCEPT !.crossed = FALSE], thrown |-> FALSE]
          ELSE IF c.listeners[n] = None THEN after[n - 1]
          ELSE Call(after[n - 1], n, v)
    IN  after

\* Mutant: a variable that somebody listens to is left to the listeners.
SetValueNoStore(c, v) ==
    LET s == Called(c, v)[MaxKey]
    IN  IF c.listeners = NoListeners THEN [s EXCEPT !.var.value = v] ELSE s

\* SetValue: nothing if the value is the same, else the listeners in order and
\* then the store, which a throwing listener skips and which overwrites what a
\* nested SetValue stored.
SetValue(c, v) ==
    LET s == Called(c, v)[MaxKey]
    IN  IF v = c.value THEN [var |-> c, thrown |-> FALSE]
        ELSE IF s.thrown THEN s
        ELSE [s EXCEPT !.var.value = v]

AddListener(c, k, kind) == [c EXCEPT !.listeners[k] = kind, !.told[k] = None]
\* operator[]: a key that is not there is added, with an empty callback.
GetListener(c, k) == IF c.listeners[k] = None THEN [c EXCEPT !.listeners[k] = "empty"] ELSE c
DelListener(c, k) == [c EXCEPT !.listeners[k] = None, !.told[k] = None]
ClearListener(c) == [c EXCEPT !.listeners = NoListeners, !.told = NoListeners]

\* Lookup with a default: creates the variable, or finds it; of another type the
\* result is a null pointer and nothing changes.
Lookup(c, type, default) ==
    IF c.type = "none" THEN [c EXCEPT !.type = type, !.value = default] ELSE c

-----------------------------------------------------------------------------
(* Documents.  YAML itself (yaml-cpp) is external: a document is the       *)
(* sequence of the nodes of the tree in the order of a depth-first walk,   *)
(* each with key, the path in lower case; upper, whether the path has an   *)
(* upper case letter; valid, whether it has allowed characters only;       *)
(* scalar; bad, whether LexicalCast throws; and val, what it makes of it.  *)

\* The elements of s that are in S, among the first n.
Kept(s, S) ==
    LET kept[n \in 0 .. Len(s)] ==
          IF n = 0 THEN <<>>
          ELSE IF s[n] \in S THEN Append(kept[n - 1], s[n])
          ELSE kept[n - 1]
    IN  kept

\* YamlToList: a path with a bad character is left out, and so is all below it.
YamlToList(doc) == Kept(doc, {n \in {doc[i] : i \in DOMAIN doc} : n.valid})[Len(doc)]

\* What LoadFromYaml does with a node of the list, known being the variables'
\* names: a scalar is looked up by the path as it is written, which operator[]
\* creates as a null pointer when the map has it in lower case.
NodeOutcome(n, known) ==
    IF n.key \notin known THEN "ignored"
    ELSE IF n.scalar /\ n.upper THEN "null"
    ELSE IF n.bad THEN "throws"
    ELSE "set"
=============================================================================
