------------------------- MODULE SwaggerMergeProofs -------------------------
(***************************************************************************)
(* Theorems about SwaggerMerge, for any alphabet, any services and any     *)
(* documents.  What is in the merged document is told entry by entry: of   *)
(* which document it is and under which name it stands there.              *)
(***************************************************************************)
EXTENDS SwaggerMerge, SequenceTheorems, TLAPS

-----------------------------------------------------------------------------
(* Names put before names.                                                 *)

\* What follows a name is what was put behind it.
LEMMA Suffix ==
  ASSUME NEW S, NEW a \in Seq(S), NEW n \in Seq(S)
  PROVE  After(a, a \o n) = n
  <1>1. Len(a) \in Nat /\ Len(n) \in Nat /\ Len(a \o n) = Len(a) + Len(n)
    BY LenProperties, ConcatProperties
  <1>2. CASE Len(n) = 0
    <2>1. n = <<>>
      BY <1>2, EmptySeq
    <2> QED
      BY <1>1, <1>2, <2>1, SubSeqEmpty DEF After
  <1>3. CASE Len(n) > 0
    <2>1. SubSeq(a \o n, Len(a) + 1, Len(a) + Len(n))
            = SubSeq(n, Len(a) + 1 - Len(a), Len(a) + Len(n) - Len(a))
      BY <1>1, <1>3, SubSeqOfConcat2
    <2>2. Len(a) + 1 - Len(a) = 1 /\ Len(a) + Len(n) - Len(a) = Len(n)
      BY <1>1
    <2> QED
      BY <1>1, <2>1, <2>2, SubSeqFull DEF After
  <1> QED
    BY <1>1, <1>2, <1>3

LEMMA SameSuffix ==
  ASSUME NEW S, NEW a \in Seq(S), NEW m \in Seq(S), NEW n \in Seq(S), a \o m = a \o n
  PROVE  m = n
  BY Suffix

\* A name begins what is made with it.
LEMMA Begins ==
  ASSUME NEW S, NEW a \in Seq(S), NEW n \in Seq(S)
  PROVE  IsPrefix(a, a \o n)
  <1>1. Len(a) \in Nat /\ Len(n) \in Nat /\ Len(a \o n) = Len(a) + Len(n)
    BY LenProperties, ConcatProperties
  <1>2. CASE Len(a) = 0
    BY <1>1, <1>2, SubSeqEmpty DEF IsPrefix
  <1>3. CASE Len(a) > 0
    <2>1. SubSeq(a \o n, 1, Len(a)) = SubSeq(a, 1, Len(a))
      BY <1>1, <1>3, SubSeqOfConcat1
    <2> QED
      BY <1>1, <2>1 DEF IsPrefix
  <1> QED
    BY <1>1, <1>2, <1>3

\* Of two beginnings of one name the shorter begins the longer.
LEMMA Comparable ==
  ASSUME NEW S, NEW a \in Seq(S), NEW b \in Seq(S), NEW m \in Seq(S), NEW n \in Seq(S),
         a \o m = b \o n, Len(a) <= Len(b)
  PROVE  IsPrefix(a, b)
  <1>1. Len(a) \in Nat /\ Len(b) \in Nat /\ Len(m) \in Nat /\ Len(n) \in Nat
    BY LenProperties
  <1>2. CASE Len(a) = 0
    BY <1>1, <1>2, SubSeqEmpty DEF IsPrefix
  <1>3. CASE Len(a) > 0
    <2>1. SubSeq(a \o m, 1, Len(a)) = SubSeq(a, 1, Len(a))
      BY <1>1, <1>3, SubSeqOfConcat1
    <2>2. SubSeq(b \o n, 1, Len(a)) = SubSeq(b, 1, Len(a))
      BY <1>1, <1>3, SubSeqOfConcat1
    <2> QED
      BY <1>1, <2>1, <2>2 DEF IsPrefix
  <1> QED
    BY <1>1, <1>2, <1>3

\* One segment before a path.
LEMMA OneSegment ==
  ASSUME NEW S, NEW a \in S, NEW p \in Seq(S)
  PROVE  /\ <<a>> \in Seq(S) /\ <<a>> \o p \in Seq(S)
         /\ <<a>> \o p # <<>>
         /\ (<<a>> \o p)[1] = a
  <1>1. <<a>> \in Seq(S) /\ Len(<<a>>) = 1 /\ <<a>>[1] = a
    OBVIOUS
  <1>2. Len(p) \in Nat
    BY LenProperties
  <1>3. <<a>> \o p \in Seq(S) /\ Len(<<a>> \o p) = 1 + Len(p)
    BY <1>1, ConcatProperties
  <1>4. (<<a>> \o p)[1] = a
    BY <1>1, <1>2, ConcatProperties
  <1> QED
    BY <1>1, <1>2, <1>3, <1>4, EmptySeq

LEMMA SameRoute ==
  ASSUME NEW S, NEW a \in S, NEW b \in S, NEW p \in Seq(S), NEW q \in Seq(S),
         <<a>> \o p = <<b>> \o q
  PROVE  a = b /\ p = q
  <1>1. a = b
    BY OneSegment
  <1> QED
    BY <1>1, OneSegment, SameSuffix

\* A section whose names were prefixed.
LEMMA PrefixedIs ==
  ASSUME NEW S, NEW a \in Seq(S), NEW f, DOMAIN f \subseteq Seq(S)
  PROVE  \A n \in DOMAIN f : Prefixed(a, f)[a \o n] = f[n]
  <1>1. \A n \in DOMAIN f : After(a, a \o n) = n
    BY Suffix
  <1> QED
    BY <1>1 DEF Prefixed

\* An operation id is a text that begins with its service and a dot.
LEMMA DotAt ==
  ASSUME NEW s \in Text, NEW t \in Text
  PROVE  /\ s \o <<Dot>> \in Text /\ <<Dot>> \o t \in Text
         /\ s \o <<Dot>> \o t \in Text
         /\ Len(s \o <<Dot>>) = Len(s) + 1
         /\ s \o <<Dot>> \o t = s \o (<<Dot>> \o t)
         /\ IsPrefix(s \o <<Dot>>, s \o <<Dot>> \o t)
  <1>1. <<Dot>> \in Seq(Letters) /\ Len(<<Dot>>) = 1
    BY ConstantsAssumption
  <1> DEFINE dot == <<Dot>>
  <1> HIDE DEF dot
  <1>2. /\ s \o dot \in Seq(Letters) /\ dot \o t \in Seq(Letters)
        /\ (s \o dot) \o t \in Seq(Letters)
        /\ Len(s \o dot) = Len(s) + 1
    BY <1>1, ConcatProperties DEF Text, dot
  <1>3. (s \o dot) \o t = s \o (dot \o t)
    BY <1>1, ConcatAssociative DEF Text, dot
  <1>4. IsPrefix(s \o dot, (s \o dot) \o t)
    BY <1>2, Begins DEF Text
  <1> QED
    BY <1>2, <1>3, <1>4 DEF dot, Text

\* If an operation id can be read in two ways, one service's name begins with the
\* other's and a dot.
LEMMA ShorterBegins ==
  ASSUME NEW a \in Text, NEW b \in Text, NEW m \in Text, NEW n \in Text,
         a \o <<Dot>> \o m = b \o <<Dot>> \o n, Len(a) < Len(b)
  PROVE  IsPrefix(a \o <<Dot>>, b)
  <1> DEFINE s == a \o <<Dot>>
             t == <<Dot>> \o n
  <1>1. /\ s \in Seq(Letters) /\ t \in Seq(Letters)
        /\ Len(s) = Len(a) + 1
        /\ b \o <<Dot>> \o n = b \o t
    BY DotAt DEF Text
  <1>2. s \o m = b \o t
    BY <1>1
  <1>3. Len(s) <= Len(b)
    BY <1>1, LenProperties DEF Text
  <1> HIDE DEF s, t
  <1>4. IsPrefix(s, b)
    BY <1>1, <1>2, <1>3, Comparable DEF Text
  <1> QED
    BY <1>4 DEF s

LEMMA DotSplits ==
  ASSUME NEW a \in Text, NEW b \in Text, NEW m \in Text, NEW n \in Text,
         a \o <<Dot>> \o m = b \o <<Dot>> \o n,
         ~IsPrefix(a \o <<Dot>>, b), ~IsPrefix(b \o <<Dot>>, a)
  PROVE  a = b /\ m = n
  <1>1. Len(a) = Len(b)
    <2>1. ~(Len(a) < Len(b))
      BY ShorterBegins
    <2>2. ~(Len(b) < Len(a))
      BY ShorterBegins
    <2> QED
      BY <2>1, <2>2, LenProperties DEF Text
  <1> DEFINE u == <<Dot>> \o m
             v == <<Dot>> \o n
  <1>2. u \in Seq(Letters) /\ v \in Seq(Letters) /\ a \o u = b \o v
    BY DotAt DEF Text
  <1> HIDE DEF u, v
  <1>3. a = b
    <2>1. a \in Seq(Letters) /\ b \in Seq(Letters)
      BY DEF Text
    <2>2. \A i \in 1..Len(a) : (a \o u)[i] = a[i] /\ (b \o v)[i] = b[i]
      BY <1>1, <1>2, <2>1, ConcatProperties, LenProperties
    <2> QED
      BY <1>1, <1>2, <2>1, <2>2, SeqEqual
  <1>4. u = v
    BY <1>2, <1>3, SameSuffix DEF Text
  <1>5. m = n
    <2>1. <<Dot>> \in Seq(Letters)
      BY ConstantsAssumption
    <2> QED
      BY <1>4, <2>1, SameSuffix DEF Text, u, v
  <1> QED
    BY <1>3, <1>5

-----------------------------------------------------------------------------
(* Whose the entries are.                                                  *)

\* The documents that are in, the gateway's own (<<>>) at last.
Merged == DOMAIN docs \ todo
Listed == Merged \cup {s \in {<<>>} : stage = "done"}

DocumentOf(a) == IF a = <<>> THEN OwnDocument ELSE docs[a]
Route(a, p) == IF a \in {<<>>, Buildly} THEN p ELSE <<a>> \o p

\* The id of an action of a's that has become path k.
IdAt(a, k, id) ==
    IF a # <<>> /\ stage \in {"merged", "done"} THEN OperationId(k, id) ELSE id

IsDefinition(k, a, n) ==
    /\ n \in DOMAIN DocumentOf(a).definitions
    /\ k = a \o n
    /\ definitions[k] = [body |-> <<a, n>>,
                         refs |-> Renamed(a, DocumentOf(a).definitions[n].refs)]

IsAction(k, a, p) ==
    /\ p \in DOMAIN DocumentOf(a).paths
    /\ k = Route(a, p)
    /\ paths[k] = [body |-> <<a, p>>,
                   refs |-> Renamed(a, DocumentOf(a).paths[p].refs),
                   id   |-> IdAt(a, k, DocumentOf(a).paths[p].id)]

RequestInv ==
    /\ docs \in [DOMAIN docs -> Documents \cup {Null}]
    /\ DOMAIN docs \subseteq Apis
    /\ todo \subseteq DOMAIN docs
    /\ stage \in {"merge", "merged", "done", "failed"}
    /\ stage \in {"merged", "done"} => todo = {}
    /\ \A a \in Merged : docs[a] # Null

\* Nothing is in the document that is of no source, and no name of a source
\* is missing; two of them may have become one.
DefinitionsInv ==
    /\ \A k \in DOMAIN definitions : \E a \in Listed :
          \E n \in DOMAIN DocumentOf(a).definitions : IsDefinition(k, a, n)
    /\ \A a \in Listed : \A n \in DOMAIN DocumentOf(a).definitions :
          a \o n \in DOMAIN definitions

\* Nor in the paths, where the services' stand before the gateway's own.
PathsInv ==
    /\ \A k \in DOMAIN paths : \E a \in Listed :
          \E p \in DOMAIN DocumentOf(a).paths : IsAction(k, a, p)
    /\ \A a \in Listed : \A p \in DOMAIN DocumentOf(a).paths :
          /\ Route(a, p) \in DOMAIN paths
          /\ a # <<>> => paths[Route(a, p)].body[1] # <<>>

IInv == RequestInv /\ DefinitionsInv /\ PathsInv

-----------------------------------------------------------------------------
(* The invariant is one.                                                   *)

\* Every source that is listed has a document, and a name by which its entries
\* are found again.
LEMMA ListedIs ==
  ASSUME RequestInv, NEW a \in Listed
  PROVE  /\ a \in Seq(Letters)
         /\ a # <<>> => a \in Apis /\ a \in DOMAIN docs /\ docs[a] # Null
         /\ IsDocument(DocumentOf(a))
         /\ DOMAIN DocumentOf(a).definitions \subseteq Name
         /\ DOMAIN DocumentOf(a).paths \subseteq Path
  <1>1. a # <<>> => a \in Merged
    BY DEF Listed
  <1>2. a \in Seq(Letters)
    BY <1>1, ConstantsAssumption, EmptySeq DEF RequestInv, Merged, Name, Text
  <1>3. IsDocument(DocumentOf(a))
    BY <1>1, ConstantsAssumption DEF RequestInv, Merged, DocumentOf
  <1> QED
    BY <1>1, <1>2, <1>3 DEF RequestInv, Merged, IsDocument

\* What a service adds.
LEMMA Added ==
  ASSUME NEW a \in Apis, NEW d, IsDocument(d)
  PROVE  LET D == Prefixed(a, DefinitionsOf(a, d))
             P == Routed(a, PathsOf(a, d))
         IN  /\ \A k : k \in DOMAIN D <=> \E n \in DOMAIN d.definitions : k = a \o n
             /\ \A n \in DOMAIN d.definitions :
                   D[a \o n] = [body |-> <<a, n>>,
                                refs |-> Renamed(a, d.definitions[n].refs)]
             /\ \A k : k \in DOMAIN P <=> \E p \in DOMAIN d.paths : k = Route(a, p)
             /\ \A p \in DOMAIN d.paths :
                   P[Route(a, p)] = [body |-> <<a, p>>,
                                     refs |-> Renamed(a, d.paths[p].refs),
                                     id   |-> d.paths[p].id]
  <1> DEFINE D == DefinitionsOf(a, d)
             P == PathsOf(a, d)
  <1>1. a \in Seq(Letters) /\ a \in Name /\ a # <<>>
    BY ConstantsAssumption DEF Name, Text
  <1>2. DOMAIN d.definitions \subseteq Seq(Letters) /\ DOMAIN d.paths \subseteq Seq(Text)
    BY DEF IsDocument, Name, Path, Text
  <1>3. /\ DOMAIN D = DOMAIN d.definitions
        /\ \A n \in DOMAIN D : D[n] = [body |-> <<a, n>>,
                                       refs |-> Renamed(a, d.definitions[n].refs)]
    BY DEF DefinitionsOf
  <1>4. /\ DOMAIN P = DOMAIN d.paths
        /\ \A p \in DOMAIN P : P[p] = [body |-> <<a, p>>,
                                       refs |-> Renamed(a, d.paths[p].refs),
                                       id   |-> d.paths[p].id]
    BY DEF PathsOf
  <1> HIDE DEF D, P
  <1>5. /\ \A k : k \in DOMAIN Prefixed(a, D) <=> \E n \in DOMAIN d.definitions : k = a \o n
        /\ \A n \in DOMAIN d.definitions : Prefixed(a, D)[a \o n] = D[n]
    <2>1. DOMAIN D \subseteq Seq(Letters)
      BY <1>2, <1>3
    <2>2. \A n \in DOMAIN D : Prefixed(a, D)[a \o n] = D[n]
      BY <1>1, <2>1, PrefixedIs
    <2>3. \A k : k \in DOMAIN Prefixed(a, D) <=> \E n \in DOMAIN D : k = a \o n
      BY DEF Prefixed
    <2> QED
      BY <1>3, <2>2, <2>3
  <1>6. <<a>> \in Seq(Text)
    BY <1>1 DEF Text
  <1>7. /\ \A k : k \in DOMAIN Prefixed(<<a>>, P)
                  <=> \E p \in DOMAIN d.paths : k = <<a>> \o p
        /\ \A p \in DOMAIN d.paths : Prefixed(<<a>>, P)[<<a>> \o p] = P[p]
    <2>1. DOMAIN P \subseteq Seq(Text)
      BY <1>2, <1>4
    <2>2. \A p \in DOMAIN P : Prefixed(<<a>>, P)[<<a>> \o p] = P[p]
      <3> DEFINE s == <<a>>
      <3>1. s \in Seq(Text)
        BY <1>6
      <3> HIDE DEF s
      <3>2. \A p \in DOMAIN P : Prefixed(s, P)[s \o p] = P[p]
        BY <2>1, <3>1, PrefixedIs
      <3> QED
        BY <3>2 DEF s
    <2>3. \A k : k \in DOMAIN Prefixed(<<a>>, P) <=> \E p \in DOMAIN P : k = <<a>> \o p
      BY DEF Prefixed
    <2> QED
      BY <1>4, <2>2, <2>3
  <1>8. /\ \A k : k \in DOMAIN Routed(a, P) <=> \E p \in DOMAIN d.paths : k = Route(a, p)
        /\ \A p \in DOMAIN d.paths : Routed(a, P)[Route(a, p)] = P[p]
    <2>1. CASE a = Buildly
      BY <1>4, <2>1 DEF Routed, Route
    <2>2. CASE a # Buildly
      BY <1>1, <1>7, <2>2 DEF Routed, Route
    <2> QED
      BY <2>1, <2>2
  <1> QED
    BY <1>3, <1>4, <1>5, <1>8 DEF D, P

LEMMA UpdatedIs ==
  ASSUME NEW f, NEW g
  PROVE  /\ \A k : k \in DOMAIN Updated(f, g) <=> k \in DOMAIN f \/ k \in DOMAIN g
         /\ \A k \in DOMAIN g : Updated(f, g)[k] = g[k]
         /\ \A k \in DOMAIN f : k \notin DOMAIN g => Updated(f, g)[k] = f[k]
  BY DEF Updated

LEMMA InitInv == Init => IInv
  <1> SUFFICES ASSUME Init
               PROVE  IInv
    OBVIOUS
  <1>1. Merged = {} /\ Listed = {} /\ DOMAIN definitions = {} /\ DOMAIN paths = {}
    BY DEF Init, Merged, Listed
  <1>2. PICK S \in SUBSET Apis : docs \in [S -> Documents \cup {Null}]
    BY DEF Init
  <1>3. RequestInv
    BY <1>1, <1>2 DEF RequestInv, Init
  <1> QED
    BY <1>1, <1>3 DEF IInv, DefinitionsInv, PathsInv

LEMMA MergeStep ==
  ASSUME IInv, NEW a \in Apis, MergeApi(a)
  PROVE  IInv'
  <1> DEFINE d == docs[a]
             D == Prefixed(a, DefinitionsOf(a, d))
             P == Routed(a, PathsOf(a, d))
  <1>1. /\ stage = "merge" /\ stage' = stage /\ docs' = docs
        /\ a \in todo /\ d # Null /\ todo' = todo \ {a}
        /\ definitions' = Updated(definitions, D)
        /\ paths' = Updated(paths, P)
    BY DEF MergeApi
  <1>2. a \in DOMAIN docs /\ a # <<>>
    BY <1>1, ConstantsAssumption DEF IInv, RequestInv, Name
  <1>3. IsDocument(d)
    BY <1>1, <1>2, ConstantsAssumption DEF IInv, RequestInv
  <1>4. /\ \A k : k \in DOMAIN D <=> \E n \in DOMAIN d.definitions : k = a \o n
        /\ \A n \in DOMAIN d.definitions :
              D[a \o n] = [body |-> <<a, n>>, refs |-> Renamed(a, d.definitions[n].refs)]
        /\ \A k : k \in DOMAIN P <=> \E p \in DOMAIN d.paths : k = Route(a, p)
        /\ \A p \in DOMAIN d.paths :
              P[Route(a, p)] = [body |-> <<a, p>>, refs |-> Renamed(a, d.paths[p].refs),
                                id   |-> d.paths[p].id]
    BY <1>3, Added
  <1>5. Merged' = Merged \cup {a} /\ Listed' = Listed \cup {a}
    BY <1>1, <1>2 DEF Merged, Listed
  <1>6. RequestInv'
    BY <1>1, <1>5 DEF IInv, RequestInv
  <1>7. /\ \A b : DocumentOf(b)' = DocumentOf(b)
        /\ DocumentOf(a) = d
        /\ \A b, k, id : IdAt(b, k, id) = id /\ IdAt(b, k, id)' = id
    BY <1>1, <1>2 DEF DocumentOf, IdAt
  <1> HIDE DEF d, D, P
  <1>8. /\ \A k : k \in DOMAIN definitions' <=> k \in DOMAIN definitions \/ k \in DOMAIN D
        /\ \A k \in DOMAIN D : definitions'[k] = D[k]
        /\ \A k \in DOMAIN definitions : k \notin DOMAIN D => definitions'[k] = definitions[k]
        /\ \A k : k \in DOMAIN paths' <=> k \in DOMAIN paths \/ k \in DOMAIN P
        /\ \A k \in DOMAIN P : paths'[k] = P[k]
        /\ \A k \in DOMAIN paths : k \notin DOMAIN P => paths'[k] = paths[k]
    BY <1>1, UpdatedIs
  <1>9. DefinitionsInv'
    <2>1. ASSUME NEW k \in DOMAIN D
          PROVE  \E n \in DOMAIN d.definitions : IsDefinition(k, a, n)'
      <3>1. PICK n \in DOMAIN d.definitions : k = a \o n
        BY <1>4
      <3>2. definitions'[k] = [body |-> <<a, n>>, refs |-> Renamed(a, d.definitions[n].refs)]
        BY <3>1, <1>4, <1>8
      <3> QED
        BY <3>1, <3>2, <1>7 DEF IsDefinition
    <2>2. ASSUME NEW k \in DOMAIN definitions \ DOMAIN D
          PROVE  \E b \in Listed : \E n \in DOMAIN DocumentOf(b).definitions :
                    IsDefinition(k, b, n)'
      <3>1. PICK b \in Listed : \E n \in DOMAIN DocumentOf(b).definitions :
                    IsDefinition(k, b, n)
        BY DEF IInv, DefinitionsInv
      <3> QED
        BY <3>1, <1>7, <1>8 DEF IsDefinition
    <2>3. \A k \in DOMAIN definitions' : \E b \in Listed' :
              \E n \in DOMAIN DocumentOf(b)'.definitions : IsDefinition(k, b, n)'
      BY <2>1, <2>2, <1>5, <1>7, <1>8
    <2>4. \A b \in Listed' : \A n \in DOMAIN DocumentOf(b)'.definitions :
              b \o n \in DOMAIN definitions'
      BY <1>4, <1>5, <1>7, <1>8 DEF IInv, DefinitionsInv
    <2> QED
      BY <2>3, <2>4 DEF DefinitionsInv
  <1>10. PathsInv'
    <2>1. ASSUME NEW k \in DOMAIN P
          PROVE  \E p \in DOMAIN d.paths : IsAction(k, a, p)'
      <3>1. PICK p \in DOMAIN d.paths : k = Route(a, p)
        BY <1>4
      <3>2. paths'[k] = [body |-> <<a, p>>, refs |-> Renamed(a, d.paths[p].refs),
                         id   |-> d.paths[p].id]
        BY <3>1, <1>4, <1>8
      <3> QED
        BY <3>1, <3>2, <1>7 DEF IsAction, Route
    <2>2. ASSUME NEW k \in DOMAIN paths \ DOMAIN P
          PROVE  \E b \in Listed : \E p \in DOMAIN DocumentOf(b).paths : IsAction(k, b, p)'
      <3>1. PICK b \in Listed : \E p \in DOMAIN DocumentOf(b).paths : IsAction(k, b, p)
        BY DEF IInv, PathsInv
      <3> QED
        BY <3>1, <1>7, <1>8 DEF IsAction, Route
    <2>3. \A k \in DOMAIN paths' : \E b \in Listed' :
              \E p \in DOMAIN DocumentOf(b)'.paths : IsAction(k, b, p)'
      BY <2>1, <2>2, <1>5, <1>7, <1>8
    <2>4. ASSUME NEW k \in DOMAIN P
          PROVE  paths'[k].body[1] = a
      <3>1. PICK p \in DOMAIN d.paths : k = Route(a, p)
        BY <1>4
      <3>2. P[Route(a, p)].body = <<a, p>>
        <4>1. P[Route(a, p)] = [body |-> <<a, p>>, refs |-> Renamed(a, d.paths[p].refs),
                                id   |-> d.paths[p].id]
          BY <1>4
        <4> QED
          BY <4>1
      <3>3. paths'[k] = P[k]
        BY <1>8
      <3> QED
        BY <3>1, <3>2, <3>3
    <2>5. \A b \in Listed' : \A p \in DOMAIN DocumentOf(b)'.paths :
              /\ Route(b, p) \in DOMAIN paths'
              /\ b # <<>> => paths'[Route(b, p)].body[1] # <<>>
      BY <2>4, <1>2, <1>4, <1>5, <1>7, <1>8 DEF IInv, PathsInv
    <2> QED
      BY <2>3, <2>5 DEF PathsInv, Route
  <1> QED
    BY <1>6, <1>9, <1>10 DEF IInv

LEMMA FailStep ==
  ASSUME IInv, NEW a \in Apis, MergeFails(a)
  PROVE  IInv'
  <1>1. /\ stage = "merge" /\ stage' = "failed"
        /\ UNCHANGED <<docs, todo, definitions, paths>>
    BY DEF MergeFails
  <1>2. Merged' = Merged /\ Listed' = Listed
    BY <1>1 DEF Merged, Listed
  <1>3. /\ \A b : DocumentOf(b)' = DocumentOf(b)
        /\ \A b, k, id : IdAt(b, k, id)' = IdAt(b, k, id)
    BY <1>1 DEF DocumentOf, IdAt
  <1> QED
    BY <1>1, <1>2, <1>3
       DEF IInv, RequestInv, DefinitionsInv, PathsInv, IsDefinition, IsAction

LEMMA IdsStep ==
  ASSUME IInv, GenerateOperationIds
  PROVE  IInv'
  <1>1. /\ stage = "merge" /\ stage' = "merged" /\ todo = {}
        /\ UNCHANGED <<docs, todo, definitions>>
        /\ paths' = [p \in DOMAIN paths |->
                        [paths[p] EXCEPT !.id = OperationId(p, @)]]
    BY DEF GenerateOperationIds
  <1>2. Merged' = Merged /\ Listed' = Listed /\ Listed = Merged
    BY <1>1 DEF Merged, Listed
  <1>3. \A b : DocumentOf(b)' = DocumentOf(b)
    BY <1>1 DEF DocumentOf
  <1>4. \A b \in Listed : b # <<>>
    BY <1>2, ConstantsAssumption DEF IInv, RequestInv, Merged, Name
  <1>5. \A b \in Listed : \A k, id :
            IdAt(b, k, id) = id /\ IdAt(b, k, id)' = OperationId(k, id)
    BY <1>1, <1>4 DEF IdAt
  <1>6. RequestInv'
    BY <1>1, <1>2 DEF IInv, RequestInv
  <1>7. DefinitionsInv'
    BY <1>1, <1>2, <1>3 DEF IInv, DefinitionsInv, IsDefinition
  <1>8. PathsInv'
    <2>1. ASSUME NEW k \in DOMAIN paths'
          PROVE  \E b \in Listed' : \E p \in DOMAIN DocumentOf(b)'.paths : IsAction(k, b, p)'
      <3>1. PICK b \in Listed : \E p \in DOMAIN DocumentOf(b).paths : IsAction(k, b, p)
        BY <1>1 DEF IInv, PathsInv
      <3>2. PICK p \in DOMAIN DocumentOf(b).paths : IsAction(k, b, p)
        BY <3>1
      <3>3. paths'[k] = [paths[k] EXCEPT !.id = OperationId(k, @)]
        BY <1>1
      <3>4. paths'[k] = [body |-> <<b, p>>,
                         refs |-> Renamed(b, DocumentOf(b).paths[p].refs),
                         id   |-> OperationId(k, DocumentOf(b).paths[p].id)]
        BY <3>2, <3>3, <1>5 DEF IsAction
      <3>5. IsAction(k, b, p)'
        BY <3>2, <3>4, <1>3, <1>5 DEF IsAction, Route
      <3> QED
        BY <3>5, <1>2, <1>3
    <2>2. ASSUME NEW b \in Listed', NEW p \in DOMAIN DocumentOf(b)'.paths
          PROVE  /\ Route(b, p) \in DOMAIN paths'
                 /\ b # <<>> => paths'[Route(b, p)].body[1] # <<>>
      <3>1. /\ Route(b, p) \in DOMAIN paths
            /\ b # <<>> => paths[Route(b, p)].body[1] # <<>>
        BY <1>2, <1>3 DEF IInv, PathsInv
      <3>2. PICK c \in Listed : \E q \in DOMAIN DocumentOf(c).paths :
                IsAction(Route(b, p), c, q)
        BY <3>1 DEF IInv, PathsInv
      <3>3. PICK q \in DOMAIN DocumentOf(c).paths : IsAction(Route(b, p), c, q)
        BY <3>2
      <3>4. paths'[Route(b, p)].body = paths[Route(b, p)].body
        BY <3>1, <3>3, <1>1 DEF IsAction
      <3> QED
        BY <3>1, <3>4, <1>1
    <2> QED
      BY <2>1, <2>2 DEF PathsInv, Route
  <1> QED
    BY <1>6, <1>7, <1>8 DEF IInv

LEMMA SchemaStep ==
  ASSUME IInv, GetSchema
  PROVE  IInv'
  <1> DEFINE D == DefinitionsOf(<<>>, OwnDocument)
             P == PathsOf(<<>>, OwnDocument)
  <1>1. /\ stage = "merged" /\ stage' = "done"
        /\ UNCHANGED <<docs, todo>>
        /\ definitions' = Updated(D, definitions)
        /\ paths' = Updated(P, paths)
    BY DEF GetSchema
  <1>2. Merged' = Merged /\ Listed = Merged /\ Listed' = Listed \cup {<<>>}
    BY <1>1 DEF Merged, Listed
  <1>3. \A b : DocumentOf(b)' = DocumentOf(b)
    BY <1>1 DEF DocumentOf
  <1>4. \A b \in Listed : b # <<>>
    BY <1>2, ConstantsAssumption DEF IInv, RequestInv, Merged, Name
  <1>5. /\ \A b, k, id : IdAt(b, k, id)' = IdAt(b, k, id)
        /\ \A k, id : IdAt(<<>>, k, id)' = id
    BY <1>1 DEF IdAt
  <1>6. RequestInv'
    BY <1>1, <1>2 DEF IInv, RequestInv
  <1>7. DocumentOf(<<>>) = OwnDocument /\ IsDocument(OwnDocument)
    BY ConstantsAssumption DEF DocumentOf
  <1>8. /\ DOMAIN D = DOMAIN OwnDocument.definitions
        /\ \A n \in DOMAIN D :
              D[n] = [body |-> << <<>>, n>>,
                      refs |-> Renamed(<<>>, OwnDocument.definitions[n].refs)]
        /\ DOMAIN P = DOMAIN OwnDocument.paths
        /\ \A p \in DOMAIN P :
              P[p] = [body |-> << <<>>, p>>,
                      refs |-> Renamed(<<>>, OwnDocument.paths[p].refs),
                      id   |-> OwnDocument.paths[p].id]
    BY DEF DefinitionsOf, PathsOf
  <1>9. /\ \A n \in DOMAIN D : <<>> \o n = n
        /\ \A p \in DOMAIN P : Route(<<>>, p) = p
    BY <1>7, <1>8, ConcatEmptySeq DEF IsDocument, Name, Route
  <1> HIDE DEF D, P
  <1>10. /\ \A k : k \in DOMAIN definitions' <=> k \in DOMAIN D \/ k \in DOMAIN definitions
         /\ \A k \in DOMAIN definitions : definitions'[k] = definitions[k]
         /\ \A k \in DOMAIN D : k \notin DOMAIN definitions => definitions'[k] = D[k]
         /\ \A k : k \in DOMAIN paths' <=> k \in DOMAIN P \/ k \in DOMAIN paths
         /\ \A k \in DOMAIN paths : paths'[k] = paths[k]
         /\ \A k \in DOMAIN P : k \notin DOMAIN paths => paths'[k] = P[k]
    BY <1>1, UpdatedIs
  <1>11. DefinitionsInv'
    <2>1. ASSUME NEW k \in DOMAIN definitions
          PROVE  \E b \in Listed : \E n \in DOMAIN DocumentOf(b).definitions :
                    IsDefinition(k, b, n)'
      <3>1. PICK b \in Listed : \E n \in DOMAIN DocumentOf(b).definitions :
                    IsDefinition(k, b, n)
        BY DEF IInv, DefinitionsInv
      <3> QED
        BY <3>1, <1>3, <1>10 DEF IsDefinition
    <2>2. ASSUME NEW k \in DOMAIN D, k \notin DOMAIN definitions
          PROVE  IsDefinition(k, <<>>, k)'
      <3>1. definitions'[k] = [body |-> << <<>>, k>>,
                               refs |-> Renamed(<<>>, OwnDocument.definitions[k].refs)]
        BY <2>2, <1>8, <1>10
      <3> QED
        BY <3>1, <1>3, <1>7, <1>8, <1>9 DEF IsDefinition
    <2>3. \A k \in DOMAIN definitions' : \E b \in Listed' :
              \E n \in DOMAIN DocumentOf(b)'.definitions : IsDefinition(k, b, n)'
      BY <2>1, <2>2, <1>2, <1>3, <1>7, <1>8, <1>10
    <2>4. \A b \in Listed' : \A n \in DOMAIN DocumentOf(b)'.definitions :
              b \o n \in DOMAIN definitions'
      BY <1>2, <1>3, <1>7, <1>8, <1>9, <1>10 DEF IInv, DefinitionsInv
    <2> QED
      BY <2>3, <2>4 DEF DefinitionsInv
  <1>12. PathsInv'
    <2>1. ASSUME NEW k \in DOMAIN paths
          PROVE  \E b \in Listed : \E p \in DOMAIN DocumentOf(b).paths : IsAction(k, b, p)'
      <3>1. PICK b \in Listed : \E p \in DOMAIN DocumentOf(b).paths : IsAction(k, b, p)
        BY DEF IInv, PathsInv
      <3> QED
        BY <3>1, <1>3, <1>5, <1>10 DEF IsAction, Route
    <2>2. ASSUME NEW k \in DOMAIN P, k \notin DOMAIN paths
          PROVE  IsAction(k, <<>>, k)'
      <3>1. paths'[k] = [body |-> << <<>>, k>>,
                         refs |-> Renamed(<<>>, OwnDocument.paths[k].refs),
                         id   |-> OwnDocument.paths[k].id]
        BY <2>2, <1>8, <1>10
      <3> QED
        BY <3>1, <1>3, <1>5, <1>7, <1>8, <1>9 DEF IsAction, Route
    <2>3. \A k \in DOMAIN paths' : \E b \in Listed' :
              \E p \in DOMAIN DocumentOf(b)'.paths : IsAction(k, b, p)'
      BY <2>1, <2>2, <1>2, <1>3, <1>7, <1>8, <1>10
    <2>4. \A b \in Listed' : \A p \in DOMAIN DocumentOf(b)'.paths :
              /\ Route(b, p) \in DOMAIN paths'
              /\ b # <<>> => paths'[Route(b, p)].body[1] # <<>>
      BY <1>2, <1>3, <1>7, <1>8, <1>9, <1>10 DEF IInv, PathsInv
    <2> QED
      BY <2>3, <2>4 DEF PathsInv, Route
  <1> QED
    BY <1>6, <1>11, <1>12 DEF IInv

\* What is in the document is known at every step, whatever is merged and in
\* which order.
THEOREM Invariance == Spec => []IInv
  <1>1. IInv /\ [Next]_vars => IInv'
    <2> SUFFICES ASSUME IInv, [Next]_vars
                 PROVE  IInv'
      OBVIOUS
    <2>1. ASSUME NEW a \in Apis, MergeApi(a) \/ MergeFails(a)
          PROVE  IInv'
      BY <2>1, MergeStep, FailStep
    <2>2. CASE GenerateOperationIds
      BY <2>2, IdsStep
    <2>3. CASE GetSchema
      BY <2>3, SchemaStep
    <2>4. CASE UNCHANGED vars
      <3>1. UNCHANGED <<docs, todo, definitions, paths, stage>>
        BY <2>4 DEF vars
      <3>2. Merged' = Merged /\ Listed' = Listed
        BY <3>1 DEF Merged, Listed
      <3>3. /\ \A b : DocumentOf(b)' = DocumentOf(b)
            /\ \A b, k, id : IdAt(b, k, id)' = IdAt(b, k, id)
        BY <3>1 DEF DocumentOf, IdAt
      <3> QED
        BY <3>1, <3>2, <3>3
           DEF IInv, RequestInv, DefinitionsInv, PathsInv, IsDefinition, IsAction
    <2> QED
      BY <2>1, <2>2, <2>3, <2>4 DEF Next
  <1> QED
    BY <1>1, InitInv, PTL DEF Spec

-----------------------------------------------------------------------------
(* What follows for the reader of the document.                            *)

\* A definition is found under its name only, if names are apart.
LEMMA OneDefinition ==
  ASSUME IInv, NamesApart,
         NEW a \in Listed, NEW n \in DOMAIN DocumentOf(a).definitions
  PROVE  a \o n \in DOMAIN definitions /\ IsDefinition(a \o n, a, n)
  <1>1. a \o n \in DOMAIN definitions
    BY DEF IInv, DefinitionsInv
  <1>2. PICK b \in Listed : \E m \in DOMAIN DocumentOf(b).definitions :
            IsDefinition(a \o n, b, m)
    BY <1>1 DEF IInv, DefinitionsInv
  <1>3. PICK m \in DOMAIN DocumentOf(b).definitions : IsDefinition(a \o n, b, m)
    BY <1>2
  <1>4. a \o n = b \o m
    BY <1>3 DEF IsDefinition
  <1>5. /\ a \in Seq(Letters) /\ b \in Seq(Letters)
        /\ n \in Seq(Letters) /\ m \in Seq(Letters)
    BY ListedIs DEF IInv, Name, Text
  <1>6. a = b
    <2>1. CASE a # <<>> /\ b # <<>>
      <3>1. a \in DOMAIN docs /\ b \in DOMAIN docs
        BY <2>1, ListedIs DEF IInv
      <3>2. Len(a) \in Nat /\ Len(b) \in Nat
        BY <1>5, LenProperties
      <3>3. Len(a) <= Len(b) => IsPrefix(a, b)
        BY <1>4, <1>5, Comparable
      <3>4. Len(b) <= Len(a) => IsPrefix(b, a)
        BY <1>4, <1>5, Comparable
      <3> QED
        BY <3>1, <3>2, <3>3, <3>4 DEF NamesApart
    <2>2. CASE a = <<>> /\ b # <<>>
      <3>1. b \in DOMAIN docs
        BY <2>2, ListedIs DEF IInv
      <3>2. n = b \o m
        BY <2>2, <1>4, <1>5, ConcatEmptySeq
      <3>3. n \in DOMAIN OwnDocument.definitions
        BY <2>2 DEF DocumentOf
      <3>4. IsPrefix(b, n)
        BY <1>5, <3>2, Begins
      <3> QED
        BY <3>1, <3>3, <3>4 DEF NamesApart
    <2>3. CASE a # <<>> /\ b = <<>>
      <3>1. a \in DOMAIN docs
        BY <2>3, ListedIs DEF IInv
      <3>2. m = a \o n
        BY <2>3, <1>4, <1>5, ConcatEmptySeq
      <3>3. m \in DOMAIN OwnDocument.definitions
        BY <2>3 DEF DocumentOf
      <3>4. IsPrefix(a, m)
        BY <1>5, <3>2, Begins
      <3> QED
        BY <3>1, <3>3, <3>4 DEF NamesApart
    <2> QED
      BY <2>1, <2>2, <2>3
  <1>7. n = m
    BY <1>4, <1>5, <1>6, SameSuffix
  <1> QED
    BY <1>1, <1>3, <1>6, <1>7

\* What an entry refers to, it had under its own name in its own document.
LEMMA RefsAreListed ==
  ASSUME IInv, NEW e \in Entries, NEW r \in e.refs
  PROVE  \E a \in Listed : \E n \in DOMAIN DocumentOf(a).definitions :
            e.body[1] = a /\ r = a \o n
  <1>1. CASE \E k \in DOMAIN definitions : e = definitions[k]
    <2>1. PICK k \in DOMAIN definitions : e = definitions[k]
      BY <1>1
    <2>2. PICK a \in Listed : \E m \in DOMAIN DocumentOf(a).definitions :
              IsDefinition(k, a, m)
      BY DEF IInv, DefinitionsInv
    <2>3. PICK m \in DOMAIN DocumentOf(a).definitions : IsDefinition(k, a, m)
      BY <2>2
    <2>4. e.body[1] = a /\ e.refs = Renamed(a, DocumentOf(a).definitions[m].refs)
      BY <2>1, <2>3 DEF IsDefinition
    <2>5. DocumentOf(a).definitions[m].refs \subseteq DOMAIN DocumentOf(a).definitions
      BY ListedIs DEF IInv, IsDocument
    <2> QED
      BY <2>4, <2>5 DEF Renamed
  <1>2. CASE \E k \in DOMAIN paths : e = paths[k]
    <2>1. PICK k \in DOMAIN paths : e = paths[k]
      BY <1>2
    <2>2. PICK a \in Listed : \E p \in DOMAIN DocumentOf(a).paths : IsAction(k, a, p)
      BY DEF IInv, PathsInv
    <2>3. PICK p \in DOMAIN DocumentOf(a).paths : IsAction(k, a, p)
      BY <2>2
    <2>4. e.body[1] = a /\ e.refs = Renamed(a, DocumentOf(a).paths[p].refs)
      BY <2>1, <2>3 DEF IsAction
    <2>5. DocumentOf(a).paths[p].refs \subseteq DOMAIN DocumentOf(a).definitions
      BY ListedIs DEF IInv, IsDocument
    <2> QED
      BY <2>4, <2>5 DEF Renamed
  <1> QED
    BY <1>1, <1>2 DEF Entries

\* Every reference of every entry leads to the definition its author meant, at
\* every step of the merge and whatever the services publish, while no
\* service's name begins another's (_update_specification, get_schema).
THEOREM References == Spec => []ReferencesResolve
  <1>1. IInv => ReferencesResolve
    <2> SUFFICES ASSUME IInv, NamesApart, NEW e \in Entries, NEW r \in e.refs
                 PROVE  /\ r \in DOMAIN definitions
                        /\ definitions[r].body = <<e.body[1], After(e.body[1], r)>>
      BY DEF ReferencesResolve
    <2>1. PICK a \in Listed : \E n \in DOMAIN DocumentOf(a).definitions :
              e.body[1] = a /\ r = a \o n
      BY RefsAreListed
    <2>2. PICK n \in DOMAIN DocumentOf(a).definitions : e.body[1] = a /\ r = a \o n
      BY <2>1
    <2>3. r \in DOMAIN definitions /\ definitions[r].body = <<a, n>>
      <3>1. a \o n \in DOMAIN definitions /\ IsDefinition(a \o n, a, n)
        BY OneDefinition
      <3>2. definitions[a \o n].body = <<a, n>>
        BY <3>1 DEF IsDefinition
      <3> QED
        BY <2>2, <3>1, <3>2
    <2>4. After(a, r) = n
      <3>1. a \in Seq(Letters) /\ n \in Seq(Letters)
        BY ListedIs DEF IInv, Name, Text
      <3> QED
        BY <2>2, <3>1, Suffix
    <2> QED
      BY <2>2, <2>3, <2>4
  <1> QED
    BY <1>1, Invariance, PTL

\* No path of a service is taken by another one's, if paths are apart.
LEMMA OneAction ==
  ASSUME IInv, stage = "done", PathsApart,
         NEW a \in DOMAIN docs, NEW p \in DOMAIN docs[a].paths
  PROVE  /\ a \in Listed /\ a # <<>> /\ a \in Name /\ docs[a] # Null
         /\ Route(a, p) \in DOMAIN paths /\ IsAction(Route(a, p), a, p)
  <1>1. a \in Listed /\ a # <<>> /\ a \in Name /\ DocumentOf(a) = docs[a] /\ docs[a] # Null
    BY ConstantsAssumption DEF IInv, RequestInv, Listed, Merged, DocumentOf, Name
  <1>2. /\ Route(a, p) \in DOMAIN paths
        /\ paths[Route(a, p)].body[1] # <<>>
    BY <1>1 DEF IInv, PathsInv
  <1>3. PICK b \in Listed : \E r \in DOMAIN DocumentOf(b).paths : IsAction(Route(a, p), b, r)
    BY <1>2 DEF IInv, PathsInv
  <1>4. PICK r \in DOMAIN DocumentOf(b).paths : IsAction(Route(a, p), b, r)
    BY <1>3
  <1>5. Route(a, p) = Route(b, r) /\ paths[Route(a, p)].body = <<b, r>>
    BY <1>4 DEF IsAction
  <1>6. b # <<>>
    BY <1>2, <1>5
  <1>7. b \in DOMAIN docs /\ DocumentOf(b) = docs[b] /\ docs[b] # Null /\ b \in Name
    BY <1>6, ListedIs, ConstantsAssumption DEF IInv, DocumentOf
  <1>8. p \in Seq(Text) /\ r \in Seq(Text)
    BY <1>1, <1>4, ListedIs DEF IInv, Path
  <1>9. a = b /\ p = r
    <2>1. CASE a = Buildly /\ b = Buildly
      BY <1>5, <2>1 DEF Route
    <2>2. CASE a = Buildly /\ b # Buildly
      <3>1. p = <<b>> \o r
        BY <1>5, <1>6, <2>2 DEF Route
      <3>2. p[1] = b
        BY <1>7, <1>8, <3>1, OneSegment
      <3> QED
        BY <1>1, <1>7, <2>2, <3>2 DEF PathsApart, BuildlyPaths
    <2>3. CASE a # Buildly /\ b = Buildly
      <3>1. r = <<a>> \o p
        BY <1>1, <1>5, <2>3 DEF Route
      <3>2. r[1] = a
        BY <1>1, <1>8, <3>1, OneSegment
      <3> QED
        BY <1>1, <1>4, <1>7, <2>3, <3>2 DEF PathsApart, BuildlyPaths
    <2>4. CASE a # Buildly /\ b # Buildly
      <3>1. <<a>> \o p = <<b>> \o r
        BY <1>1, <1>5, <1>6, <2>4 DEF Route
      <3>2. a \in Name
        BY <1>1, ConstantsAssumption DEF IInv, RequestInv
      <3>3. a \in Text /\ b \in Text /\ p \in Seq(Text) /\ r \in Seq(Text)
        BY <3>2, <1>7, <1>8 DEF Name
      <3> QED
        BY <3>1, <3>3, SameRoute
    <2> QED
      BY <2>1, <2>2, <2>3, <2>4
  <1> QED
    BY <1>1, <1>2, <1>4, <1>9

\* Whose action bears the id of another one.
LEMMA SameId ==
  ASSUME IInv, stage = "done", PathsApart, IdsApart,
         NEW a \in DOMAIN docs \ {Buildly}, NEW p \in DOMAIN docs[a].paths,
         NEW o \in DOMAIN paths,
         paths[Route(a, p)].id # NoId, paths[o].id = paths[Route(a, p)].id
  PROVE  o = Route(a, p)
  <1> DEFINE q == Route(a, p)
             i == docs[a].paths[p].id
  <1>1. a \in Listed /\ a # <<>> /\ a \in Name /\ docs[a] # Null /\ IsAction(q, a, p)
    BY OneAction
  <1>2. DocumentOf(a) = docs[a] /\ IsDocument(docs[a]) /\ p \in Seq(Text)
    BY <1>1, ListedIs DEF IInv, DocumentOf, Path
  <1>3. a \in Text /\ q = <<a>> \o p /\ q[1] = a
    BY <1>1, <1>2, OneSegment DEF Route, Name
  <1>4. paths[q].id = OperationId(q, i)
    BY <1>1, <1>2 DEF IsAction, IdAt
  <1>5. i \in Text /\ paths[q].id = a \o <<Dot>> \o i
    BY <1>2, <1>3, <1>4 DEF OperationId, IsDocument
  <1>6. PICK b \in Listed : \E r \in DOMAIN DocumentOf(b).paths : IsAction(o, b, r)
    BY DEF IInv, PathsInv
  <1>7. PICK r \in DOMAIN DocumentOf(b).paths : IsAction(o, b, r)
    BY <1>6
  <1> DEFINE j == DocumentOf(b).paths[r].id
  <1>8. /\ r \in Seq(Text) /\ r # <<>> /\ j \in Text \cup {NoId} /\ o = Route(b, r)
        /\ paths[o].id = IdAt(b, o, j)
        /\ DOMAIN DocumentOf(b).paths \subseteq Path
    BY <1>7, ListedIs DEF IInv, IsDocument, Path, IsAction
  <1> HIDE DEF q, i
  <1>9. CASE b = <<>>
    <2>1. paths[o].id = j
      BY <1>8, <1>9 DEF IdAt
    <2>2. j = a \o <<Dot>> \o i /\ j # NoId
      BY <2>1, <1>5 DEF q
    <2>3. j \in Ids(OwnDocument)
      BY <1>7, <1>9, <2>2 DEF Ids, DocumentOf
    <2>4. IsPrefix(a \o <<Dot>>, j)
      BY <2>2, <1>3, <1>5, DotAt
    <2> QED
      BY <2>3, <2>4 DEF IdsApart
  <1>10. CASE b # <<>>
    <2> HIDE DEF j
    <2>1. b \in DOMAIN docs /\ DocumentOf(b) = docs[b] /\ docs[b] # Null /\ b \in Text
      BY <1>10, ListedIs, ConstantsAssumption DEF IInv, DocumentOf, Name
    <2>2. o[1] \in Text /\ o[1] \in Heads
      <3>1. CASE b = Buildly
        <4>1. o = r /\ r \in BuildlyPaths
          BY <1>7, <1>8, <2>1, <3>1 DEF Route, BuildlyPaths
        <4>2. Len(r) \in Nat /\ Len(r) # 0
          BY <1>8, EmptySeq, LenProperties
        <4>3. r[1] \in Text
          BY <4>2, <1>8, ElementOfSeq
        <4> QED
          BY <4>1, <4>3 DEF Heads
      <3>2. CASE b # Buildly
        BY <1>8, <1>10, <2>1, <3>2, OneSegment DEF Route, Heads
      <3> QED
        BY <3>1, <3>2
    <2>3. paths[o].id = OperationId(o, j)
      BY <1>8, <1>10 DEF IdAt
    <2>4. j \in Text /\ paths[o].id = o[1] \o <<Dot>> \o j
      BY <2>3, <1>5, <1>8 DEF OperationId, q
    <2>5. o[1] = a /\ j = i
      <3>1. a \in Heads
        BY DEF Heads
      <3>2. ~IsPrefix(a \o <<Dot>>, o[1]) /\ ~IsPrefix(o[1] \o <<Dot>>, a)
        BY <2>2, <3>1 DEF IdsApart
      <3>3. o[1] \o <<Dot>> \o j = a \o <<Dot>> \o i
        BY <2>4, <1>5 DEF q
      <3> DEFINE h == o[1]
      <3>4. /\ h \in Text /\ a \in Text /\ j \in Text /\ i \in Text
            /\ h \o <<Dot>> \o j = a \o <<Dot>> \o i
            /\ ~IsPrefix(h \o <<Dot>>, a) /\ ~IsPrefix(a \o <<Dot>>, h)
        BY <2>2, <2>4, <3>2, <3>3, <1>3, <1>5
      <3> HIDE DEF h
      <3>5. h = a /\ j = i
        BY <3>4, DotSplits
      <3> QED
        BY <3>5 DEF h
    <2>6. b # Buildly
      BY <2>1, <2>5, <1>7, <1>8 DEF PathsApart, BuildlyPaths, Route
    <2>7. b = a /\ o = <<a>> \o r
      BY <1>8, <1>10, <2>1, <2>5, <2>6, OneSegment DEF Route
    <2>8. p = r
      <3>1. docs[a].paths[p].id = docs[a].paths[r].id /\ r \in DOMAIN docs[a].paths
        BY <2>1, <2>5, <2>7, <1>7 DEF i, j
      <3>2. docs[a].paths[p].id # NoId
        BY <1>5, ConstantsAssumption DEF i
      <3> QED
        BY <3>1, <3>2, <1>1 DEF PathsApart
    <2> QED
      BY <2>7, <2>8, <1>3 DEF q
  <1> QED
    BY <1>9, <1>10

\* No action of a service is lost, and the operation id it gets is no other
\* action's, while the services' own ids are distinct and the made ones cannot be
\* read in two ways (generate_operation_id, get_schema).
THEOREM Operations == Spec => []OperationsDistinct
  <1>1. IInv => OperationsDistinct
    <2> SUFFICES ASSUME IInv, stage = "done", PathsApart,
                        NEW a \in DOMAIN docs \ {Buildly}, NEW p \in DOMAIN docs[a].paths
                 PROVE  LET q == <<a>> \o p IN
                        /\ q \in DOMAIN paths /\ paths[q].body = <<a, p>>
                        /\ paths[q].id # NoId /\ IdsApart =>
                              \A o \in DOMAIN paths \ {q} : paths[o].id # paths[q].id
      BY DEF OperationsDistinct
    <2>1. /\ a # <<>> /\ Route(a, p) \in DOMAIN paths /\ IsAction(Route(a, p), a, p)
      BY OneAction
    <2>2. Route(a, p) = <<a>> \o p
      BY <2>1 DEF Route
    <2>3. paths[<<a>> \o p].body = <<a, p>>
      BY <2>1, <2>2 DEF IsAction
    <2> QED
      BY <2>1, <2>2, <2>3, SameId
  <1> QED
    BY <1>1, Invariance, PTL

-----------------------------------------------------------------------------
(* Types.                                                                  *)

LEMMA RenamedType ==
  ASSUME NEW a \in Seq(Letters), NEW refs \in SUBSET Name
  PROVE  Renamed(a, refs) \subseteq Name
  <1> SUFFICES ASSUME NEW n \in refs
               PROVE  a \o n \in Name
    BY DEF Renamed
  <1> QED
    BY ConcatProperties, ConcatEqualIffEmpty DEF Name, Text

LEMMA DefinitionType ==
  ASSUME IInv, NEW k \in DOMAIN definitions
  PROVE  /\ k \in Name
         /\ definitions[k].body \in Sources \X Name
         /\ definitions[k].refs \subseteq Name
  <1>1. PICK a \in Listed : \E n \in DOMAIN DocumentOf(a).definitions : IsDefinition(k, a, n)
    BY DEF IInv, DefinitionsInv
  <1>2. PICK n \in DOMAIN DocumentOf(a).definitions : IsDefinition(k, a, n)
    BY <1>1
  <1>3. /\ k = a \o n
        /\ definitions[k].body = <<a, n>>
        /\ definitions[k].refs = Renamed(a, DocumentOf(a).definitions[n].refs)
    BY <1>2 DEF IsDefinition
  <1>4. /\ a \in Seq(Letters) /\ a \in Sources /\ n \in Name
        /\ DocumentOf(a).definitions[n].refs \subseteq Name
    BY ListedIs DEF IInv, IsDocument, Sources
  <1>5. k \in Name
    BY <1>3, <1>4, ConcatProperties, ConcatEqualIffEmpty DEF Name, Text
  <1> QED
    BY <1>3, <1>4, <1>5, RenamedType

LEMMA ActionType ==
  ASSUME IInv, NEW k \in DOMAIN paths
  PROVE  /\ k \in Path
         /\ paths[k].body \in Sources \X Path
         /\ paths[k].refs \subseteq Name
         /\ paths[k].id \in Text \cup {NoId}
  <1>1. PICK a \in Listed : \E p \in DOMAIN DocumentOf(a).paths : IsAction(k, a, p)
    BY DEF IInv, PathsInv
  <1>2. PICK p \in DOMAIN DocumentOf(a).paths : IsAction(k, a, p)
    BY <1>1
  <1> DEFINE i == DocumentOf(a).paths[p].id
  <1>3. /\ k = Route(a, p)
        /\ paths[k].body = <<a, p>>
        /\ paths[k].refs = Renamed(a, DocumentOf(a).paths[p].refs)
        /\ paths[k].id = IdAt(a, k, i)
    BY <1>2 DEF IsAction
  <1>4. /\ a \in Seq(Letters) /\ a \in Sources /\ p \in Path
        /\ DocumentOf(a).paths[p].refs \subseteq Name
        /\ i \in Text \cup {NoId}
        /\ a # <<>> => a \in Text
    BY ListedIs, ConstantsAssumption DEF IInv, IsDocument, Sources, Name
  <1> HIDE DEF i
  <1>5. k \in Path
    <2>1. CASE a \in {<<>>, Buildly}
      BY <1>3, <1>4, <2>1 DEF Route
    <2>2. CASE a \notin {<<>>, Buildly}
      <3>1. k = <<a>> \o p /\ a \in Text /\ p \in Seq(Text)
        BY <1>3, <1>4, <2>2 DEF Route, Path
      <3> QED
        BY <3>1, OneSegment DEF Path
    <2> QED
      BY <2>1, <2>2
  <1>6. paths[k].id \in Text \cup {NoId}
    <2>1. CASE i = NoId
      BY <1>3, <2>1 DEF IdAt, OperationId
    <2>2. CASE i # NoId
      <3>1. i \in Text
        BY <1>4, <2>2
      <3>2. k[1] \in Text
        BY <1>5, EmptySeq, ElementOfSeq DEF Path
      <3>3. k[1] \o <<Dot>> \o i \in Text
        BY <3>1, <3>2, DotAt
      <3> QED
        BY <3>1, <3>3, <2>2, <1>3 DEF IdAt, OperationId
    <2> QED
      BY <2>1, <2>2
  <1> QED
    BY <1>3, <1>4, <1>5, <1>6, RenamedType

\* The document is one at every step: names are names, what an entry says is
\* of a service or of the gateway, ids are ids (gateway/aggregator.py).
THEOREM TypeCorrect == Spec => []TypeOK
  <1>1. IInv => TypeOK
    <2> SUFFICES ASSUME IInv
                 PROVE  TypeOK
      OBVIOUS
    <2>1. /\ DOMAIN docs \subseteq Apis /\ todo \subseteq DOMAIN docs
          /\ stage \in {"merge", "merged", "done", "failed"}
      BY DEF IInv, RequestInv
    <2> QED
      BY <2>1, DefinitionType, ActionType DEF TypeOK
  <1> QED
    BY <1>1, Invariance, PTL

-----------------------------------------------------------------------------
(* The order of the modules.                                               *)

\* The definitions of a finished document, from the published ones alone.
DefinitionsAreMerged ==
    stage = "done" /\ NamesApart =>
        /\ DOMAIN definitions =
              UNION {{a \o n : n \in DOMAIN DocumentOf(a).definitions} :
                         a \in DOMAIN docs \cup {<<>>}}
        /\ \A a \in DOMAIN docs \cup {<<>>} :
              \A n \in DOMAIN DocumentOf(a).definitions :
                  definitions[a \o n] =
                      [body |-> <<a, n>>,
                       refs |-> Renamed(a, DocumentOf(a).definitions[n].refs)]

\* Its paths, too.
PathsAreMerged ==
    stage = "done" /\ PathsApart =>
        /\ DOMAIN paths =
              UNION {{Route(a, p) : p \in DOMAIN DocumentOf(a).paths} :
                         a \in DOMAIN docs \cup {<<>>}}
        /\ \A a \in DOMAIN docs : \A p \in DOMAIN docs[a].paths :
              LET k == Route(a, p) IN
              paths[k] = [body |-> <<a, p>>,
                          refs |-> Renamed(a, docs[a].paths[p].refs),
                          id   |-> OperationId(k, docs[a].paths[p].id)]
        /\ \A p \in DOMAIN OwnDocument.paths :
              (\A a \in DOMAIN docs : \A q \in DOMAIN docs[a].paths : Route(a, q) # p)
              => paths[p] = [body |-> << <<>>, p>>,
                             refs |-> Renamed(<<>>, OwnDocument.paths[p].refs),
                             id   |-> OwnDocument.paths[p].id]

\* The order in which the services' documents are merged, which is that of the
\* modules in the database, makes no difference to the document that is shown,
\* when names and paths are apart: each section is given by what the services
\* publish, and nothing is lost (gateway/aggregator.py, merge_aggregates).
THEOREM OrderMakesNoDifference == Spec => [](DefinitionsAreMerged /\ PathsAreMerged)
  <1>1. ASSUME IInv, stage = "done"
        PROVE  /\ Listed = DOMAIN docs \cup {<<>>}
               /\ \A a \in DOMAIN docs : a # <<>> /\ DocumentOf(a) = docs[a]
               /\ DocumentOf(<<>>) = OwnDocument
    BY <1>1, ConstantsAssumption DEF IInv, RequestInv, Listed, Merged, DocumentOf, Name
  <1>2. IInv => DefinitionsAreMerged
    <2> SUFFICES ASSUME IInv, stage = "done", NamesApart
                 PROVE  DefinitionsAreMerged
      BY DEF DefinitionsAreMerged
    <2>1. ASSUME NEW k
          PROVE  k \in DOMAIN definitions <=>
                    \E a \in Listed : \E n \in DOMAIN DocumentOf(a).definitions : k = a \o n
      BY DEF IInv, DefinitionsInv, IsDefinition
    <2>2. DOMAIN definitions =
              UNION {{a \o n : n \in DOMAIN DocumentOf(a).definitions} :
                         a \in DOMAIN docs \cup {<<>>}}
      <3> DEFINE N(a) == {a \o n : n \in DOMAIN DocumentOf(a).definitions}
                 U == UNION {N(a) : a \in DOMAIN docs \cup {<<>>}}
      <3>1. \A k : k \in U <=> \E a \in DOMAIN docs \cup {<<>>} :
                \E n \in DOMAIN DocumentOf(a).definitions : k = a \o n
        <4>1. \A a, k : k \in N(a) <=> \E n \in DOMAIN DocumentOf(a).definitions : k = a \o n
          OBVIOUS
        <4> HIDE DEF N
        <4>2. \A k : k \in U <=> \E a \in DOMAIN docs \cup {<<>>} : k \in N(a)
          OBVIOUS
        <4> QED
          BY <4>1, <4>2
      <3>2. \A k : k \in U <=> k \in DOMAIN definitions
        BY <1>1, <2>1, <3>1
      <3> HIDE DEF U, N
      <3>3. U = DOMAIN definitions
        BY <3>2
      <3> QED
        BY <3>3 DEF U, N
    <2>3. ASSUME NEW a \in Listed, NEW n \in DOMAIN DocumentOf(a).definitions
          PROVE  definitions[a \o n] =
                    [body |-> <<a, n>>,
                     refs |-> Renamed(a, DocumentOf(a).definitions[n].refs)]
      BY OneDefinition DEF IsDefinition
    <2> QED
      BY <1>1, <2>2, <2>3 DEF DefinitionsAreMerged
  <1>3. IInv => PathsAreMerged
    <2> SUFFICES ASSUME IInv, stage = "done", PathsApart
                 PROVE  PathsAreMerged
      BY DEF PathsAreMerged
    <2>1. ASSUME NEW k
          PROVE  k \in DOMAIN paths <=>
                    \E a \in Listed : \E p \in DOMAIN DocumentOf(a).paths : k = Route(a, p)
      BY DEF IInv, PathsInv, IsAction
    <2>2. ASSUME NEW a \in DOMAIN docs, NEW p \in DOMAIN docs[a].paths
          PROVE  paths[Route(a, p)] =
                    [body |-> <<a, p>>,
                     refs |-> Renamed(a, docs[a].paths[p].refs),
                     id   |-> OperationId(Route(a, p), docs[a].paths[p].id)]
      BY <1>1, OneAction DEF IsAction, IdAt
    <2>3. ASSUME NEW p \in DOMAIN OwnDocument.paths,
                 \A a \in DOMAIN docs : \A q \in DOMAIN docs[a].paths : Route(a, q) # p
          PROVE  paths[p] = [body |-> << <<>>, p>>,
                             refs |-> Renamed(<<>>, OwnDocument.paths[p].refs),
                             id   |-> OwnDocument.paths[p].id]
      <3>1. p \in DOMAIN paths
        BY <1>1, <2>1 DEF Route
      <3>2. PICK a \in Listed : \E q \in DOMAIN DocumentOf(a).paths : IsAction(p, a, q)
        BY <3>1 DEF IInv, PathsInv
      <3>3. PICK q \in DOMAIN DocumentOf(a).paths : IsAction(p, a, q)
        BY <3>2
      <3>4. a = <<>>
        BY <1>1, <2>3, <3>3 DEF IsAction
      <3>5. q = p
        BY <3>3, <3>4 DEF IsAction, Route
      <3> QED
        BY <1>1, <3>3, <3>4, <3>5 DEF IsAction, IdAt
    <2>4. DOMAIN paths =
              UNION {{Route(a, p) : p \in DOMAIN DocumentOf(a).paths} :
                         a \in DOMAIN docs \cup {<<>>}}
      <3> DEFINE U == UNION {{Route(a, p) : p \in DOMAIN DocumentOf(a).paths} :
                                 a \in DOMAIN docs \cup {<<>>}}
      <3>1. \A k : k \in U <=> \E a \in DOMAIN docs \cup {<<>>} :
                \E p \in DOMAIN DocumentOf(a).paths : k = Route(a, p)
        OBVIOUS
      <3>2. \A k : k \in U <=> k \in DOMAIN paths
        BY <1>1, <2>1, <3>1
      <3> HIDE DEF U
      <3>3. U = DOMAIN paths
        BY <3>2
      <3> QED
        BY <3>3 DEF U
    <2> QED
      BY <1>1, <2>2, <2>3, <2>4 DEF PathsAreMerged
  <1> QED
    BY <1>2, <1>3, Invariance, PTL

=============================================================================
