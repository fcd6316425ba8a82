------------------------- MODULE SemanticEvaluator -------------------------
(***************************************************************************)
(* The semantic evaluator and its preparation cache: threads validate      *)
(* against schema objects that their owner may change meanwhile.  A call   *)
(* takes a snapshot it owns, looks for a marker that says check_schema     *)
(* passed for that content, checks and marks otherwise, and evaluates.     *)
(* Content that has no canonical form is used in place, and never marked.  *)
(***************************************************************************)
EXTENDS Integers, FiniteSets, SequencesExt

CONSTANTS
  Threads, Objects,
  Contents,      \* what a schema object may hold
  Cacheable,     \* the contents own_and_audit accepts
  Digest,        \* [content -> its canonical digest]
  Valid,         \* the contents check_schema accepts
  OverLong,      \* the contents with a pattern above the length budget
  Findings,      \* [content -> number of errors of the payload under it]
  Capacity, MaxBreaches,
  MaxCalls, MaxChanges     \* bounds of the model

ASSUME EvaluatorAssumption ==
  /\ Cacheable \subseteq Contents /\ Valid \subseteq Contents /\ OverLong \subseteq Contents
  /\ Objects # {} /\ Contents # {} /\ Findings \in [Contents -> Nat]
  /\ Capacity \in Nat \ {0} /\ MaxBreaches \in Nat
  /\ MaxCalls \in Nat /\ MaxChanges \in Nat
\* A digest is that of one canonical content, whose validity does not depend on the
\* order its keys were written in.
ASSUME DigestAssumption ==
  \A c, d \in Cacheable : Digest[c] = Digest[d] => (c \in Valid <=> d \in Valid)

VARIABLES
  object,     \* [object -> its content now]
  changes,    \* number of changes the owners have made
  pc, arg,    \* where a thread is, and the object it validates against
  torn,       \* [thread -> the object changed while the call was reading it]
  snap,       \* [thread -> [owned, content]]
  answer,     \* [thread -> the breaches returned]
  calls,      \* [thread -> calls made]
  entries,    \* the markers, least recently used first
  hits, misses, evictions

threadVars == <<pc, arg, torn, snap, answer, calls>>
cacheVars == <<entries, hits, misses, evictions>>
vars == <<object, changes, threadVars, cacheVars>>

NoAnswer == [kind |-> "none", breaches |-> 0]
Answers == [kind : {"none", "pattern", "schema", "evaluated", "raised"}, breaches : Nat]
PCs == {"idle", "own", "guard", "lookup", "check", "mark", "evaluate", "done"}
Digests == {Digest[c] : c \in Cacheable}
Marked == {entries[i] : i \in DOMAIN entries}

TypeOK ==
  /\ object \in [Objects -> Contents] /\ changes \in Nat
  /\ pc \in [Threads -> PCs] /\ arg \in [Threads -> Objects]
  /\ torn \in [Threads -> BOOLEAN]
  /\ snap \in [Threads -> [owned : BOOLEAN, content : Contents]]
  /\ answer \in [Threads -> Answers] /\ calls \in [Threads -> Nat]
  /\ entries \in Seq(Digests)
  /\ hits \in Nat /\ misses \in Nat /\ evictions \in Nat

Init ==
  /\ object \in [Objects -> Contents] /\ changes = 0
  /\ pc = [t \in Threads |-> "idle"]
  /\ arg = [t \in Threads |-> CHOOSE o \in Objects : TRUE]
  /\ torn = [t \in Threads |-> FALSE]
  /\ snap = [t \in Threads |-> [owned |-> FALSE, content |-> CHOOSE c \in Contents : TRUE]]
  /\ answer = [t \in Threads |-> NoAnswer] /\ calls = [t \in Threads |-> 0]
  /\ entries = <<>> /\ hits = 0 /\ misses = 0 /\ evictions = 0

-----------------------------------------------------------------------------
(* The cache: each operation is one step under its lock.                   *)

Without(d) ==
  IF d \in Marked THEN RemoveAt(entries, CHOOSE i \in DOMAIN entries : entries[i] = d) ELSE entries
Touch(d) == Append(Without(d), d)
Excess(seq) == IF Len(seq) > Capacity THEN Len(seq) - Capacity ELSE 0

IsPrepared(t, d) ==
  IF d \in Marked
  THEN /\ entries' = Touch(d) /\ hits' = hits + 1
       /\ pc' = [pc EXCEPT ![t] = "evaluate"]
       /\ UNCHANGED <<misses, evictions>>
  ELSE /\ misses' = misses + 1
       /\ pc' = [pc EXCEPT ![t] = "check"]
       /\ UNCHANGED <<entries, hits, evictions>>

MarkPrepared(d) ==
  LET filled == Touch(d)
      excess == Excess(filled)
  IN  /\ entries' = SubSeq(filled, 1 + excess, Len(filled))
      /\ evictions' = evictions + excess
      /\ UNCHANGED <<hits, misses>>

-----------------------------------------------------------------------------
(* One call of validate.                                                   *)

\* A call reads the object itself until it owns a copy.
Reading(t) == pc[t] = "own" \/ (pc[t] \in {"guard", "check", "evaluate"} /\ ~snap[t].owned)

\* The owner of a schema object changes it.
Change(o) ==
  /\ changes < MaxChanges
  /\ changes' = changes + 1
  /\ \E c \in Contents : object' = [object EXCEPT ![o] = c]
  /\ torn' = [t \in Threads |-> torn[t] \/ (Reading(t) /\ arg[t] = o)]
  /\ UNCHANGED <<pc, arg, snap, answer, calls, cacheVars>>

Call(t, o) ==
  /\ pc[t] = "idle" /\ calls[t] < MaxCalls
  /\ pc' = [pc EXCEPT ![t] = "own"] /\ arg' = [arg EXCEPT ![t] = o]
  /\ snap' = [snap EXCEPT ![t].owned = FALSE]
  /\ answer' = [answer EXCEPT ![t] = NoAnswer] /\ calls' = [calls EXCEPT ![t] = @ + 1]
  /\ UNCHANGED <<object, changes, torn, cacheVars>>

\* The copy of an object that changes under it may hold anything; the digest is taken
\* from the copy.
Own(t) ==
  /\ pc[t] = "own"
  /\ \E c \in IF torn[t] THEN Contents ELSE {object[arg[t]]} :
       snap' = [snap EXCEPT ![t] = [owned |-> c \in Cacheable, content |-> c]]
  /\ pc' = [pc EXCEPT ![t] = "guard"] /\ torn' = [torn EXCEPT ![t] = FALSE]
  /\ UNCHANGED <<object, changes, arg, answer, calls, cacheVars>>

\* Mutant: the copy serves only to find the marker.
InUseLive(t) == object[arg[t]]

\* What the call works on: its copy, or the caller's object as it is now.
InUse(t) == IF snap[t].owned THEN snap[t].content ELSE object[arg[t]]

Answer(t, kind, breaches) ==
  /\ answer' = [answer EXCEPT ![t] = [kind |-> kind, breaches |-> breaches]]
  /\ pc' = [pc EXCEPT ![t] = "done"]

\* A dict that changes while it is iterated makes the iteration raise.
Raise(t) ==
  /\ Reading(t) /\ torn[t]
  /\ Answer(t, "raised", 0) /\ torn' = [torn EXCEPT ![t] = FALSE]
  /\ UNCHANGED <<object, changes, arg, snap, calls, cacheVars>>

CheckPatterns(t) ==
  /\ pc[t] = "guard"
  /\ IF InUse(t) \in OverLong THEN Answer(t, "pattern", 1)
     ELSE pc' = [pc EXCEPT ![t] = IF snap[t].owned THEN "lookup" ELSE "check"] /\ UNCHANGED answer
  /\ UNCHANGED <<object, changes, arg, torn, snap, calls, cacheVars>>

Lookup(t) ==
  /\ pc[t] = "lookup"
  /\ IsPrepared(t, Digest[snap[t].content])
  /\ UNCHANGED <<object, changes, arg, torn, snap, answer, calls>>

CheckSchema(t) ==
  /\ pc[t] = "check"
  /\ IF InUse(t) \notin Valid THEN Answer(t, "schema", 1)
     ELSE pc' = [pc EXCEPT ![t] = IF snap[t].owned THEN "mark" ELSE "evaluate"] /\ UNCHANGED answer
  /\ UNCHANGED <<object, changes, arg, torn, snap, calls, cacheVars>>

Mark(t) ==
  /\ pc[t] = "mark"
  /\ MarkPrepared(Digest[snap[t].content])
  /\ pc' = [pc EXCEPT ![t] = "evaluate"]
  /\ UNCHANGED <<object, changes, arg, torn, snap, answer, calls>>

\* iter_errors, drained up to max_breaches; one more error adds the mark of the cut.
Drained(n) == IF n > MaxBreaches THEN MaxBreaches + 1 ELSE n
Evaluate(t) ==
  /\ pc[t] = "evaluate"
  /\ IF InUse(t) \in Valid THEN Answer(t, "evaluated", Drained(Findings[InUse(t)]))
     ELSE Answer(t, "raised", 0)
  /\ UNCHANGED <<object, changes, arg, torn, snap, calls, cacheVars>>

Return(t) ==
  /\ pc[t] = "done"
  /\ pc' = [pc EXCEPT ![t] = "idle"] /\ torn' = [torn EXCEPT ![t] = FALSE]
  /\ UNCHANGED <<object, changes, arg, snap, answer, calls, cacheVars>>

Step(t) ==
  \/ Own(t) \/ Raise(t) \/ CheckPatterns(t) \/ Lookup(t) \/ CheckSchema(t) \/ Mark(t)
  \/ Evaluate(t) \/ Return(t)
Next ==
  \/ \E o \in Objects : Change(o)
  \/ \E t \in Threads : (\E o \in Objects : Call(t, o)) \/ Step(t)
Spec == Init /\ [][Next]_vars

-----------------------------------------------------------------------------
(* Properties.                                                             *)

\* A marker is never false: whoever is checking, changing its object or being evicted
\* meanwhile, check_schema accepts every content a marker stands for.
MarkersTrue == \A c \in Cacheable : Digest[c] \in Marked => c \in Valid

\* The answer the call would give without any cache, on the content it took.
Uncached(c) ==
  IF c \in OverLong THEN [kind |-> "pattern", breaches |-> 1]
  ELSE IF c \notin Valid THEN [kind |-> "schema", breaches |-> 1]
  ELSE [kind |-> "evaluated",
        breaches |-> IF Findings[c] <= MaxBreaches THEN Findings[c] ELSE MaxBreaches + 1]

\* The cache changes one operation and no answer: a call that owns its content answers
\* for that content as it would uncached, though its object changes, another thread
\* checks the same content, or the marker it saw is evicted before it evaluates.
AnswersAsUncached ==
  \A t \in Threads : pc[t] = "done" /\ snap[t].owned => answer[t] = Uncached(snap[t].content)
=============================================================================
