------------------------- MODULE InformerCacheProofs -------------------------
(***************************************************************************)
(* What a write, an event and a fresh list do to the versions of an        *)
(* object.                                                                 *)
(***************************************************************************)
EXTENDS InformerCache, Functions, SequenceTheorems, TLAPS

\* A write appends the version the API server then stores.
LEMMA AppendFacts ==
    ASSUME NEW S, NEW o \in Seq(S), NEW x \in S
    PROVE  /\ Append(o, x) \in Seq(S)
           /\ Len(Append(o, x)) = Len(o) + 1
           /\ Stored(Append(o, x)) = x
           /\ \A i \in 1..Len(o) : Append(o, x)[i] = o[i]
  BY DEF Stored

\* An event drops the head and leaves the stored version alone.
LEMMA TailFacts ==
    ASSUME NEW S, NEW o \in Seq(S), Len(o) > 0, ~InSync(o)
    PROVE  /\ Tail(o) \in Seq(S)
           /\ Len(Tail(o)) = Len(o) - 1
           /\ Len(Tail(o)) > 0
           /\ Stored(Tail(o)) = Stored(o)
           /\ \A i \in 1..Len(Tail(o)) : Tail(o)[i] = o[i + 1]
<1>1. Len(o) \in Nat /\ Len(o) > 1
  BY DEF InSync
<1>2. /\ Tail(o) \in Seq(S)
      /\ Len(Tail(o)) = Len(o) - 1
      /\ \A i \in 1..Len(Tail(o)) : Tail(o)[i] = o[i + 1]
  BY <1>1, HeadTailProperties
<1>3. Stored(Tail(o)) = Stored(o)
  BY <1>1, <1>2 DEF Stored
<1> QED
  BY <1>1, <1>2, <1>3

\* A fresh list leaves only the stored version.
LEMMA SingleFacts ==
    ASSUME NEW S, NEW x \in S
    PROVE  /\ <<x>> \in Seq(S)
           /\ Len(<<x>>) = 1
           /\ Stored(<<x>>) = x
           /\ <<x>>[1] = x
  BY DEF Stored

\* The cached and the stored version are versions.
LEMMA EndFacts ==
    ASSUME NEW S, NEW o \in Seq(S), Len(o) > 0
    PROVE  /\ Stored(o) \in S
           /\ Cached(o) \in S
           /\ Cached(o) = o[1]
           /\ 1 \in 1..Len(o)
           /\ Len(o) \in 1..Len(o)
  BY DEF Stored, Cached

\* The same facts about the set of the versions there are.
LEMMA VersionFacts ==
    ASSUME NEW S, NEW o \in Seq(S), Len(o) > 0
    PROVE  /\ Range(o) \subseteq S
           /\ Stored(o) \in Range(o) /\ Cached(o) \in Range(o)
           /\ \A x \in S : Range(Append(o, x)) = Range(o) \cup {x}
           /\ \A x \in S : Range(<<x>>) = {x}
           /\ ~InSync(o) => Range(Tail(o)) \subseteq Range(o)
<1>1. Range(o) \subseteq S /\ Stored(o) \in Range(o) /\ Cached(o) \in Range(o)
  BY EndFacts DEF Range, Stored, Cached
<1>2. ASSUME NEW x \in S PROVE Range(Append(o, x)) = Range(o) \cup {x}
  BY AppendFacts DEF Range, Stored
<1>3. ASSUME NEW x \in S PROVE Range(<<x>>) = {x}
  BY DEF Range
<1>4. ASSUME ~InSync(o) PROVE Range(Tail(o)) \subseteq Range(o)
  <2>1. /\ Tail(o) \in Seq(S) /\ Len(Tail(o)) = Len(o) - 1
        /\ \A i \in 1..Len(Tail(o)) : Tail(o)[i] = o[i + 1]
    BY <1>4, TailFacts
  <2> QED
    BY <2>1 DEF Range
<1> QED
  BY <1>1, <1>2, <1>3, <1>4

\* One object per element of I, each with at least one version.
Families(I, S) == {f \in [I -> Seq(S)] : \A i \in I : Len(f[i]) > 0}

\* A write, an event or a fresh list of one object of a family.
LEMMA FamilyFacts ==
    ASSUME NEW I, NEW S, NEW f \in Families(I, S), NEW a \in I
    PROVE  /\ Stored(f[a]) \in S /\ Cached(f[a]) \in S
           /\ \A x \in S : [f EXCEPT ![a] = Append(@, x)] \in Families(I, S)
           /\ ~InSync(f[a]) => [f EXCEPT ![a] = Tail(@)] \in Families(I, S)
           /\ [b \in I |-> <<Stored(f[b])>>] \in Families(I, S)
<1>1. \A b \in I : f[b] \in Seq(S) /\ Len(f[b]) > 0 /\ Stored(f[b]) \in S
  BY EndFacts DEF Families
<1>2. Cached(f[a]) \in S
  BY <1>1, EndFacts
<1>3. ASSUME NEW x \in S PROVE [f EXCEPT ![a] = Append(@, x)] \in Families(I, S)
  <2>1. Append(f[a], x) \in Seq(S) /\ Len(Append(f[a], x)) = Len(f[a]) + 1
    BY <1>1, AppendFacts
  <2>2. Len(f[a]) \in Nat
    BY <1>1
  <2> QED
    BY <1>1, <2>1, <2>2 DEF Families
<1>4. ASSUME ~InSync(f[a]) PROVE [f EXCEPT ![a] = Tail(@)] \in Families(I, S)
  <2>1. Tail(f[a]) \in Seq(S) /\ Len(Tail(f[a])) > 0
    BY <1>1, <1>4, TailFacts
  <2> QED
    BY <1>1, <2>1 DEF Families
<1>5. [b \in I |-> <<Stored(f[b])>>] \in Families(I, S)
  <2>1. ASSUME NEW b \in I
        PROVE  <<Stored(f[b])>> \in Seq(S) /\ Len(<<Stored(f[b])>>) > 0
    BY <1>1, SingleFacts
  <2> QED
    BY <2>1 DEF Families
<1> QED
  BY <1>1, <1>2, <1>3, <1>4, <1>5

=============================================================================
