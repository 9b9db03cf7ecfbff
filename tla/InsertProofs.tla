-------------------------- MODULE InsertProofs --------------------------
(***************************************************************************)
(* What an insert leaves behind: theorems about the deduplication log of a *)
(* plain table (DedupLog) and about inserts into a replicated one          *)
(* (ReplicatedInsert), for any block ids, windows, replicas, contents and  *)
(* bounds. The two share no variable.                                      *)
(*                                                                         *)
(* The deduplication log. load reads the files record by record, and what  *)
(* that ends with depends on every record. The invariant therefore speaks  *)
(* of what would be read from any tail of the files with any window up to  *)
(* the present one: an end of the map, the longer the more files and the   *)
(* larger the window (Sound). Rotation only drops files from the front and *)
(* a smaller window only shortens the map, so both keep that. That what is *)
(* left suffices (Whole) needs the counts of records that dropOutdatedLogs *)
(* adds up. The loops of the code are functions on 0..N; a fact about all  *)
(* of their steps is shown for the set of the steps it holds for (UpTo).   *)
(*                                                                         *)
(* The replicated insert, with a quorum or without, across lost            *)
(* connections, crashes and expired sessions. A block number is used by    *)
(* one insert only (FreshNumbers), and a request to commit it that can     *)
(* still be executed is waited for by an insert of the same session, at a  *)
(* replica that is up, with the part in its working set (Sessions,         *)
(* Requests). So an answer, or what an insert finds of its part after it   *)
(* lost the connection, is true (Answers), and neither the insert nor the  *)
(* part check takes away a part that ZooKeeper knows of (Kept). A quorum   *)
(* fails only for a replica that became active anew, which changes the     *)
(* version of its host that the insert compares (Quorums, Hosts); an       *)
(* insert that may still succeed therefore has its part in the log and its *)
(* quorum open or reached (Succeeding). Without a quorum, a block id names *)
(* the one part of its content (BlockNodes).                               *)
(***************************************************************************)
EXTENDS DedupLog, ReplicatedInsert, PartInfoProofs, SequenceTheorems, FiniteSetTheorems

(***************************************************************************)
(* PART ONE: the deduplication log                                         *)
(* The map: a queue of at most n entries with different ids                *)
(***************************************************************************)
Different(m) == \A i, j \in 1..Len(m) : i = j \/ m[i].id # m[j].id
Maps(n) == {m \in Seq(Entries) : Len(m) <= n /\ Different(m)}

(* S is the end of M.                                                      *)
EndsWith(S, M) ==
    Len(S) <= Len(M) /\ \A i \in 1..Len(S) : S[i] = M[Len(M) - Len(S) + i]

LEMMA ContainsAt ==
    ASSUME NEW m \in Seq(Entries), NEW id
    PROVE  mapContains(m, id) <=> \E i \in 1..Len(m) : m[i].id = id
  BY DEF mapContains, ToSet

(* insert keeps the ids different and the size within the window.          *)
LEMMA InsertTyped ==
    ASSUME NEW n \in Nat, n # 0, NEW m \in Maps(n), NEW e \in Entries
    PROVE  insertEntry(m, e, n) \in Maps(n)
  <1>1. CASE mapContains(m, e.id)
    BY <1>1 DEF insertEntry
  <1>2. CASE ~mapContains(m, e.id)
    <2>0. m \in Seq(Entries) /\ Len(m) \in Nat /\ \A i \in 1..Len(m) : m[i].id # e.id
      BY <1>2, ContainsAt DEF Maps
    <2>1. CASE Len(m) = n
      <3> DEFINE t == Tail(m)
      <3>1. t \in Seq(Entries) /\ Len(t) = n - 1 /\ \A i \in 1..Len(t) : t[i] = m[i + 1]
        BY <2>0, <2>1
      <3>2. insertEntry(m, e, n) = Append(t, e)
        BY <1>2, <2>1 DEF insertEntry
      <3> HIDE DEF t
      <3>3. ASSUME NEW i \in 1..Len(t), NEW j \in 1..Len(t) PROVE i = j \/ t[i].id # t[j].id
        <4>1. i + 1 \in 1..Len(m) /\ j + 1 \in 1..Len(m)
          BY <3>1, <2>0, <2>1
        <4>2. i + 1 = j + 1 \/ m[i + 1].id # m[j + 1].id
          BY <4>1 DEF Maps, Different
        <4> QED
          BY <3>1, <4>2
      <3>4. \A i \in 1..Len(t) : t[i].id # e.id
        BY <3>1, <2>0, <2>1
      <3>5. Append(t, e) \in Seq(Entries) /\ Len(Append(t, e)) = n
        BY <3>1
      <3>6. \A i \in 1..n : Append(t, e)[i] = IF i = n THEN e ELSE t[i]
        BY <3>1
      <3>7. Different(Append(t, e))
        BY <3>1, <3>3, <3>4, <3>5, <3>6 DEF Different
      <3> QED
        BY <3>2, <3>5, <3>7 DEF Maps
    <2>2. CASE Len(m) # n
      <3>1. insertEntry(m, e, n) = Append(m, e) /\ Len(m) < n
        BY <1>2, <2>2, <2>0 DEF insertEntry, Maps
      <3>2. Append(m, e) \in Seq(Entries) /\ Len(Append(m, e)) = Len(m) + 1
        BY <2>0
      <3>3. \A i \in 1..Len(m) + 1 :
                Append(m, e)[i] = IF i = Len(m) + 1 THEN e ELSE m[i]
        BY <2>0
      <3>4. Different(m)
        BY DEF Maps
      <3>5. Different(Append(m, e))
        BY <2>0, <3>2, <3>3, <3>4 DEF Different
      <3> QED
        BY <2>0, <3>1, <3>2, <3>5 DEF Maps
    <2> QED
      BY <2>1, <2>2
  <1> QED
    BY <1>1, <1>2

(* A new id makes the map longer unless it is full.                        *)
LEMMA InsertNew ==
    ASSUME NEW n \in Nat, n # 0, NEW m \in Maps(n), NEW e \in Entries, ~mapContains(m, e.id)
    PROVE  /\ Len(insertEntry(m, e, n)) = IF Len(m) = n THEN n ELSE Len(m) + 1
           /\ insertEntry(m, e, n)[Len(insertEntry(m, e, n))] = e
           /\ \A i \in 1..Len(insertEntry(m, e, n)) - 1 :
                  insertEntry(m, e, n)[i] = m[IF Len(m) = n THEN i + 1 ELSE i]
  <1>0. m \in Seq(Entries) /\ Len(m) \in Nat
    BY DEF Maps
  <1>1. CASE Len(m) = n
    <2> DEFINE t == Tail(m)
    <2>1. t \in Seq(Entries) /\ Len(t) = n - 1 /\ \A i \in 1..Len(t) : t[i] = m[i + 1]
      BY <1>0, <1>1
    <2>2. insertEntry(m, e, n) = Append(t, e)
      BY <1>1 DEF insertEntry
    <2> HIDE DEF t
    <2> QED
      BY <1>1, <2>1, <2>2
  <1>2. CASE Len(m) # n
    <2>1. insertEntry(m, e, n) = Append(m, e)
      BY <1>2 DEF insertEntry
    <2> QED
      BY <1>0, <1>2, <2>1
  <1> QED
    BY <1>1, <1>2

LEMMA EraseUnknown ==
    ASSUME NEW m, NEW id, ~mapContains(m, id)
    PROVE  erase(m, id) = m
  BY DEF erase

(* erase closes the gap that the entry leaves.                             *)
LEMMA EraseAt ==
    ASSUME NEW n \in Nat, NEW m \in Maps(n), NEW c \in 1..Len(m)
    PROVE  /\ erase(m, m[c].id) \in Maps(n)
           /\ Len(erase(m, m[c].id)) = Len(m) - 1
           /\ \A i \in 1..Len(m) - 1 : erase(m, m[c].id)[i] = m[IF i < c THEN i ELSE i + 1]
  <1> DEFINE s == SubSeq(m, 1, c - 1)
             t == SubSeq(m, c + 1, Len(m))
             r == s \o t
  <1>1. m \in Seq(Entries) /\ Len(m) \in Nat /\ Len(m) <= n /\ Different(m)
    BY DEF Maps
  <1>2. mapContains(m, m[c].id)
    BY <1>1, ContainsAt
  <1>3. (CHOOSE i \in DOMAIN m : m[i].id = m[c].id) = c
    <2>1. DOMAIN m = 1..Len(m)
      BY <1>1
    <2>2. \A i \in DOMAIN m : m[i].id = m[c].id => i = c
      BY <1>1, <2>1 DEF Different
    <2>3. c \in DOMAIN m
      BY <2>1
    <2> QED
      BY <2>2, <2>3
  <1>4. erase(m, m[c].id) = RemoveAt(m, c)
    BY <1>2, <1>3, Zenon DEF erase
  <1>5. RemoveAt(m, c) = r
    BY DEF RemoveAt
  <1>6. s \in Seq(Entries) /\ Len(s) = c - 1 /\ \A i \in 1..c - 1 : s[i] = m[i]
    BY <1>1
  <1>7. t \in Seq(Entries) /\ Len(t) = Len(m) - c /\ \A i \in 1..Len(m) - c : t[i] = m[c + i]
    <2>1. \A i \in c + 1..Len(m) : m[i] \in Entries
      BY <1>1
    <2>2. /\ SubSeq(m, c + 1, Len(m)) \in Seq(Entries)
          /\ Len(SubSeq(m, c + 1, Len(m))) = IF c + 1 <= Len(m) THEN Len(m) - (c + 1) + 1 ELSE 0
          /\ \A i \in 1..Len(m) - (c + 1) + 1 : SubSeq(m, c + 1, Len(m))[i] = m[c + 1 + i - 1]
      <3>1. c + 1 \in Int /\ Len(m) \in Int
        BY <1>1
      <3> QED
        BY <2>1, <3>1, SubSeqProperties
    <2> QED
      BY <1>1, <2>2
  <1> HIDE DEF s, t
  <1>8. r \in Seq(Entries) /\ Len(r) = Len(m) - 1
    <2>1. r \in Seq(Entries) /\ Len(r) = Len(s) + Len(t)
      BY <1>6, <1>7, ConcatProperties
    <2> QED
      BY <1>1, <1>6, <1>7, <2>1
  <1>9. \A i \in 1..Len(m) - 1 : r[i] = m[IF i < c THEN i ELSE i + 1]
    <2>1. ASSUME NEW i \in 1..Len(m) - 1 PROVE r[i] = m[IF i < c THEN i ELSE i + 1]
      <3>1. CASE i < c
        BY <1>1, <1>6, <1>7, <3>1
      <3>2. CASE ~(i < c)
        <4>1. r[i] = t[i - Len(s)]
          BY <1>1, <1>6, <1>7, <3>2
        <4>2. i - Len(s) \in 1..Len(m) - c /\ c + (i - Len(s)) = i + 1
          BY <1>1, <1>6, <3>2
        <4> QED
          BY <1>7, <3>2, <4>1, <4>2
      <3> QED
        BY <3>1, <3>2
    <2> QED
      BY <2>1
  <1> HIDE DEF r
  <1>10. Different(r)
    <2>1. ASSUME NEW i \in 1..Len(r), NEW j \in 1..Len(r) PROVE i = j \/ r[i].id # r[j].id
      <3> DEFINE a == IF i < c THEN i ELSE i + 1
                 b == IF j < c THEN j ELSE j + 1
      <3>0. i \in 1..Len(m) - 1 /\ j \in 1..Len(m) - 1
        BY <1>8
      <3>1. r[i] = m[a] /\ r[j] = m[b]
        BY <1>9, <3>0
      <3>3. a \in 1..Len(m) /\ b \in 1..Len(m) /\ (a = b => i = j)
        BY <1>1, <3>0
      <3> HIDE DEF a, b
      <3>2. a = b \/ m[a].id # m[b].id
        BY <1>1, <3>3 DEF Different
      <3> QED
        BY <3>1, <3>2, <3>3
    <2> QED
      BY <2>1 DEF Different
  <1> QED
    BY <1>1, <1>4, <1>5, <1>8, <1>9, <1>10 DEF Maps

LEMMA EraseTyped ==
    ASSUME NEW n \in Nat, NEW m \in Maps(n), NEW id
    PROVE  erase(m, id) \in Maps(n)
  <1>1. CASE ~mapContains(m, id)
    BY <1>1, EraseUnknown
  <1>2. CASE mapContains(m, id)
    <2>1. PICK c \in 1..Len(m) : m[c].id = id
      BY <1>2, ContainsAt DEF Maps
    <2> QED
      BY <2>1, EraseAt
  <1> QED
    BY <1>1, <1>2

(* The erased id is gone, and nothing else is.                             *)
LEMMA EraseContent ==
    ASSUME NEW n \in Nat, NEW m \in Maps(n), NEW id
    PROVE  ToSet(erase(m, id)) = {e \in ToSet(m) : e.id # id}
  <1>0. m \in Seq(Entries) /\ Len(m) \in Nat /\ ToSet(m) = {m[i] : i \in 1..Len(m)}
    BY DEF Maps, ToSet
  <1>1. CASE ~mapContains(m, id)
    <2>1. erase(m, id) = m
      BY <1>1, EraseUnknown
    <2> QED
      BY <1>1, <2>1 DEF mapContains
  <1>2. CASE mapContains(m, id)
    <2>1. PICK c \in 1..Len(m) : m[c].id = id
      BY <1>0, <1>2, ContainsAt
    <2> DEFINE r == erase(m, id)
    <2>2. /\ r \in Seq(Entries) /\ Len(r) = Len(m) - 1
          /\ \A i \in 1..Len(m) - 1 : r[i] = m[IF i < c THEN i ELSE i + 1]
      BY <2>1, EraseAt DEF Maps
    <2> HIDE DEF r
    <2>3. ToSet(r) = {r[i] : i \in 1..Len(m) - 1}
      BY <1>0, <2>2 DEF ToSet
    <2>4. \A i \in 1..Len(m) : i = c \/ m[i].id # id
      BY <2>1 DEF Maps, Different
    <2>5. ASSUME NEW e \in ToSet(r) PROVE e \in ToSet(m) /\ e.id # id
      <3>1. PICK i \in 1..Len(m) - 1 : e = r[i]
        BY <2>3
      <3>2. (IF i < c THEN i ELSE i + 1) \in 1..Len(m) /\ (IF i < c THEN i ELSE i + 1) # c
        BY <1>0
      <3> QED
        BY <1>0, <2>2, <2>4, <3>1, <3>2
    <2>6. ASSUME NEW e \in ToSet(m), e.id # id PROVE e \in ToSet(r)
      <3>1. PICK i \in 1..Len(m) : e = m[i]
        BY <1>0
      <3>2. i # c
        BY <2>1, <2>6, <3>1
      <3>3. CASE i < c
        BY <1>0, <2>2, <2>3, <3>1, <3>3
      <3>4. CASE i > c
        <4>1. i - 1 \in 1..Len(m) - 1 /\ ~(i - 1 < c) /\ (i - 1) + 1 = i
          BY <1>0, <3>4
        <4>2. r[i - 1] = m[i]
          BY <2>2, <4>1
        <4> QED
          BY <2>3, <3>1, <4>1, <4>2
      <3> QED
        BY <3>2, <3>3, <3>4
    <2> QED
      BY <2>5, <2>6 DEF r
  <1> QED
    BY <1>1, <1>2

(***************************************************************************)
(* The end of a map                                                        *)
(***************************************************************************)
LEMMA EndsEmpty ==
    ASSUME NEW m \in Seq(Entries)
    PROVE  EndsWith(<<>>, m)
  BY DEF EndsWith

LEMMA EndsItself ==
    ASSUME NEW m \in Seq(Entries)
    PROVE  EndsWith(m, m)
  BY DEF EndsWith

(* Of two ends of a map the shorter is the end of the longer.              *)
LEMMA EndsOfOne ==
    ASSUME NEW S \in Seq(Entries), NEW T \in Seq(Entries), NEW M \in Seq(Entries),
           EndsWith(S, M), EndsWith(T, M), Len(S) <= Len(T)
    PROVE  EndsWith(S, T)
  <1>1. ASSUME NEW i \in 1..Len(S) PROVE S[i] = T[Len(T) - Len(S) + i]
    <2>1. S[i] = M[Len(M) - Len(S) + i]
      BY DEF EndsWith
    <2>2. Len(T) - Len(S) + i \in 1..Len(T)
      OBVIOUS
    <2>3. T[Len(T) - Len(S) + i] = M[Len(M) - Len(T) + (Len(T) - Len(S) + i)]
      BY <2>2 DEF EndsWith
    <2>4. Len(M) - Len(T) + (Len(T) - Len(S) + i) = Len(M) - Len(S) + i
      OBVIOUS
    <2> QED
      BY <2>1, <2>3, <2>4
  <1> QED
    BY <1>1 DEF EndsWith

(* An end that is as long as the map is the map.                           *)
LEMMA EndsWhole ==
    ASSUME NEW S \in Seq(Entries), NEW M \in Seq(Entries),
           EndsWith(S, M), Len(M) <= Len(S)
    PROVE  S = M
  <1>1. Len(S) = Len(M)
    BY DEF EndsWith
  <1>2. ASSUME NEW i \in 1..Len(S) PROVE S[i] = M[i]
    BY <1>1 DEF EndsWith
  <1> QED
    BY <1>1, <1>2, SeqEqual

LEMMA EndsContent ==
    ASSUME NEW S \in Seq(Entries), NEW M \in Seq(Entries), EndsWith(S, M)
    PROVE  ToSet(S) \subseteq ToSet(M)
  <1>1. ToSet(S) = {S[i] : i \in 1..Len(S)} /\ ToSet(M) = {M[i] : i \in 1..Len(M)}
    BY DEF ToSet
  <1>2. ASSUME NEW i \in 1..Len(S) PROVE S[i] \in ToSet(M)
    <2>1. Len(M) - Len(S) + i \in 1..Len(M)
      BY DEF EndsWith
    <2> QED
      BY <1>1, <2>1 DEF EndsWith
  <1> QED
    BY <1>1, <1>2

LEMMA EndsContains ==
    ASSUME NEW S \in Seq(Entries), NEW M \in Seq(Entries), EndsWith(S, M), NEW id,
           mapContains(S, id)
    PROVE  mapContains(M, id)
  BY EndsContent DEF mapContains

(* IsSuffix of the library is the same relation.                           *)
LEMMA EndsIsSuffix ==
    ASSUME NEW S \in Seq(Entries), NEW M \in Seq(Entries), EndsWith(S, M)
    PROVE  IsSuffix(S, M)
  <1> DEFINE rs == Reverse(S)
             rm == Reverse(M)
  <1>1. rs \in Seq(Entries) /\ Len(rs) = Len(S) /\ \A i \in 1..Len(S) : rs[i] = S[Len(S) - i + 1]
    BY DEF Reverse
  <1>2. rm \in Seq(Entries) /\ Len(rm) = Len(M) /\ \A i \in 1..Len(M) : rm[i] = M[Len(M) - i + 1]
    BY DEF Reverse
  <1>3. Len(S) <= Len(M)
    BY DEF EndsWith
  <1>4. ASSUME NEW i \in 1..Len(S) PROVE rs[i] = rm[i]
    <2>1. Len(S) - i + 1 \in 1..Len(S) /\ i \in 1..Len(M)
      BY <1>3
    <2>2. S[Len(S) - i + 1] = M[Len(M) - Len(S) + (Len(S) - i + 1)]
      BY <2>1 DEF EndsWith
    <2>3. Len(M) - Len(S) + (Len(S) - i + 1) = Len(M) - i + 1
      OBVIOUS
    <2> QED
      BY <1>1, <1>2, <2>1, <2>2, <2>3
  <1> HIDE DEF rs, rm
  <1>5. SubSeq(rs, 1, Len(rs)) = SubSeq(rm, 1, Len(rs))
    <2> DEFINE a == SubSeq(rs, 1, Len(rs))
               b == SubSeq(rm, 1, Len(rs))
    <2>1. a \in Seq(Entries) /\ Len(a) = Len(S) /\ \A i \in 1..Len(S) : a[i] = rs[i]
      BY <1>1
    <2>2. b \in Seq(Entries) /\ Len(b) = Len(S) /\ \A i \in 1..Len(S) : b[i] = rm[i]
      BY <1>1, <1>2, <1>3
    <2> HIDE DEF a, b
    <2>3. \A i \in 1..Len(a) : a[i] = b[i]
      BY <1>4, <2>1, <2>2
    <2>4. a = b
      BY <2>1, <2>2, <2>3, SeqEqual
    <2> QED
      BY <2>4 DEF a, b
  <1> QED
    BY <1>1, <1>2, <1>3, <1>5 DEF IsSuffix, IsPrefix, rs, rm

(* A new entry added to a map and to its end, whose window is no larger.   *)
LEMMA EndsInsert ==
    ASSUME NEW n \in Nat, n # 0, NEW w \in Nat, n <= w,
           NEW S \in Maps(n), NEW M \in Maps(w), EndsWith(S, M),
           NEW e \in Entries, ~mapContains(M, e.id)
    PROVE  EndsWith(insertEntry(S, e, n), insertEntry(M, e, w))
  <1> DEFINE s == insertEntry(S, e, n)
             m == insertEntry(M, e, w)
  <1>0. S \in Seq(Entries) /\ M \in Seq(Entries) /\ Len(S) \in 0..n /\ Len(M) \in 0..w /\ w # 0
    BY DEF Maps
  <1>1. ~mapContains(S, e.id)
    BY <1>0, EndsContains
  <1>2. /\ s \in Seq(Entries) /\ Len(s) = IF Len(S) = n THEN n ELSE Len(S) + 1
        /\ s[Len(s)] = e
        /\ \A i \in 1..Len(s) - 1 : s[i] = S[IF Len(S) = n THEN i + 1 ELSE i]
    BY <1>1, InsertNew, InsertTyped DEF Maps
  <1>3. /\ m \in Seq(Entries) /\ Len(m) = IF Len(M) = w THEN w ELSE Len(M) + 1
        /\ m[Len(m)] = e
        /\ \A i \in 1..Len(m) - 1 : m[i] = M[IF Len(M) = w THEN i + 1 ELSE i]
    BY <1>0, InsertNew, InsertTyped DEF Maps
  <1>4. Len(S) <= Len(M) /\ \A i \in 1..Len(S) : S[i] = M[Len(M) - Len(S) + i]
    BY DEF EndsWith
  <1> HIDE DEF s, m
  <1>5. Len(s) <= Len(m)
    BY <1>0, <1>2, <1>3, <1>4
  <1>6. ASSUME NEW i \in 1..Len(s) PROVE s[i] = m[Len(m) - Len(s) + i]
    <2>1. CASE i = Len(s)
      BY <1>2, <1>3, <1>5, <2>1
    <2>2. CASE i \in 1..Len(s) - 1
      <3> DEFINE lS == Len(S)
                 lM == Len(M)
                 ls == Len(s)
                 lm == Len(m)
                 a == IF lS = n THEN i + 1 ELSE i
                 j == lm - ls + i
                 b == IF lM = w THEN j + 1 ELSE j
      <3>1. /\ lS \in Nat /\ lM \in Nat /\ ls \in Nat /\ lm \in Nat /\ i \in Nat
            /\ ls = (IF lS = n THEN n ELSE lS + 1)
            /\ lm = (IF lM = w THEN w ELSE lM + 1)
            /\ 1 <= i /\ i <= ls - 1 /\ ls <= lm /\ lS <= lM /\ lM <= w /\ lS <= n
        BY <1>0, <1>2, <1>3, <1>4, <1>5, <2>2
      <3> HIDE DEF lS, lM, ls, lm
      <3>2. j \in 1..lm - 1 /\ a \in 1..lS /\ b = lM - lS + a
        BY <3>1
      <3>3. s[i] = S[a] /\ m[j] = M[b]
        BY <1>2, <1>3, <2>2, <3>2 DEF lS, lM, ls, lm
      <3> HIDE DEF a, b, j
      <3>4. S[a] = M[lM - lS + a]
        BY <1>4, <3>2 DEF lS, lM
      <3> QED
        BY <3>2, <3>3, <3>4 DEF j, lm, ls
    <2> QED
      BY <1>2, <2>1, <2>2
  <1>7. EndsWith(s, m)
    BY <1>5, <1>6 DEF EndsWith
  <1> QED
    BY <1>7 DEF s, m

(* The same id erased from both.                                           *)
LEMMA EndsErase ==
    ASSUME NEW n \in Nat, NEW w \in Nat, NEW S \in Maps(n), NEW M \in Maps(w),
           EndsWith(S, M), NEW id
    PROVE  EndsWith(erase(S, id), erase(M, id))
  <1>0. S \in Seq(Entries) /\ M \in Seq(Entries) /\ Len(S) \in Nat /\ Len(M) \in Nat
    BY DEF Maps
  <1>1. Len(S) <= Len(M) /\ \A i \in 1..Len(S) : S[i] = M[Len(M) - Len(S) + i]
    BY DEF EndsWith
  <1>2. CASE ~mapContains(M, id)
    <2>1. ~mapContains(S, id)
      BY <1>0, <1>2, EndsContains
    <2>2. erase(S, id) = S /\ erase(M, id) = M
      BY <1>2, <2>1, EraseUnknown
    <2> QED
      BY <2>2
  <1>3. CASE mapContains(M, id)
    <2>1. PICK c \in 1..Len(M) : M[c].id = id
      BY <1>0, <1>3, ContainsAt
    <2> DEFINE m == erase(M, id)
               d == Len(M) - Len(S)
    <2>2. /\ Len(m) = Len(M) - 1
          /\ \A i \in 1..Len(M) - 1 : m[i] = M[IF i < c THEN i ELSE i + 1]
      BY <2>1, EraseAt
    <2>3. \A i \in 1..Len(M) : i = c \/ M[i].id # id
      BY <2>1 DEF Maps, Different
    <2> HIDE DEF m
    <2>4. CASE c <= d
      <3>1. ~mapContains(S, id)
        <4>1. ASSUME NEW i \in 1..Len(S) PROVE S[i].id # id
          <5>1. d + i \in 1..Len(M) /\ d + i # c
            BY <1>0, <1>1, <2>4
          <5> QED
            BY <1>1, <2>3, <5>1
        <4> QED
          BY <1>0, <4>1, ContainsAt
      <3>2. erase(S, id) = S
        BY <3>1, EraseUnknown
      <3>3. ASSUME NEW i \in 1..Len(S) PROVE S[i] = m[Len(m) - Len(S) + i]
        <4> DEFINE j == Len(m) - Len(S) + i
        <4>1. j \in 1..Len(M) - 1 /\ ~(j < c) /\ j + 1 = d + i
          BY <1>0, <1>1, <2>2, <2>4
        <4>2. m[j] = M[j + 1]
          BY <2>2, <4>1
        <4> QED
          BY <1>1, <4>1, <4>2
      <3>4. Len(S) <= Len(m)
        BY <1>0, <2>2, <2>4
      <3>5. EndsWith(S, m)
        BY <3>3, <3>4 DEF EndsWith
      <3> QED
        BY <3>2, <3>5 DEF m
    <2>5. CASE c > d
      <3> DEFINE a == c - d
                 s == erase(S, id)
      <3>1. a \in 1..Len(S) /\ d + a = c
        BY <1>0, <1>1, <2>5
      <3>2. S[a].id = id
        BY <1>1, <2>1, <3>1
      <3>3. /\ Len(s) = Len(S) - 1
            /\ \A i \in 1..Len(S) - 1 : s[i] = S[IF i < a THEN i ELSE i + 1]
        BY <3>1, <3>2, EraseAt
      <3> HIDE DEF s
      <3>4. ASSUME NEW i \in 1..Len(s) PROVE s[i] = m[Len(m) - Len(s) + i]
        <4> DEFINE j == Len(m) - Len(s) + i
                   p == IF i < a THEN i ELSE i + 1
                   q == IF j < c THEN j ELSE j + 1
        <4>1. i \in 1..Len(S) - 1 /\ j = d + i /\ j \in 1..Len(M) - 1
          BY <1>0, <1>1, <2>2, <3>3
        <4>2. p \in 1..Len(S)
          BY <1>0, <4>1
        <4>4. q = d + p
          <5>1. i \in Int /\ d \in Int /\ c \in Int /\ a = c - d /\ j = d + i
            BY <1>0, <4>1
          <5>2. CASE i < a
            BY <5>1, <5>2
          <5>3. CASE ~(i < a)
            BY <5>1, <5>3
          <5> QED
            BY <5>2, <5>3
        <4>3. s[i] = S[p] /\ m[j] = M[q]
          BY <2>2, <3>3, <4>1
        <4> HIDE DEF p, q
        <4> QED
          BY <1>1, <4>2, <4>3, <4>4
      <3>5. Len(s) <= Len(m)
        BY <1>0, <1>1, <2>2, <3>3
      <3>6. EndsWith(s, m)
        BY <3>4, <3>5 DEF EndsWith
      <3> QED
        BY <3>6 DEF m, s
    <2> QED
      BY <1>0, <2>4, <2>5
  <1> QED
    BY <1>2, <1>3

(***************************************************************************)
(* Reading the files                                                       *)
(***************************************************************************)
LogFiles == {f \in [records : Seq(Records), count : Nat, torn : {NotTorn} \cup Nat] :
                f.torn <= Len(f.records)}

LEMMA ReadableTyped ==
    ASSUME NEW f \in LogFiles
    PROVE  Readable(f) \in Seq(Records)
  <1>1. /\ f.records \in Seq(Records) /\ f.torn \in {NotTorn} \cup Nat
        /\ f.torn <= Len(f.records)
    BY DEF LogFiles
  <1>2. CASE f.torn = NotTorn
    BY <1>1, <1>2 DEF Readable
  <1>3. CASE f.torn # NotTorn
    <2>1. f.torn \in Nat /\ \A i \in 1..f.torn : f.records[i] \in Records
      BY <1>1, <1>3
    <2>2. SubSeq(f.records, 1, f.torn) \in Seq(Records)
      BY <2>1, SubSeqProperties
    <2> QED
      BY <1>3, <2>2 DEF Readable
  <1> QED
    BY <1>2, <1>3

LEMMA ReadRecordTyped ==
    ASSUME NEW n \in Nat, n # 0, NEW m \in Maps(n), NEW r \in Records
    PROVE  readRecord(m, r, n) \in Maps(n)
  <1>1. [id |-> r.id, part |-> r.part] \in Entries
    BY DEF Records, Entries
  <1>2. insertEntry(m, [id |-> r.id, part |-> r.part], n) \in Maps(n)
    BY <1>1, InsertTyped
  <1>3. erase(m, r.id) \in Maps(n)
    BY EraseTyped
  <1> QED
    BY <1>2, <1>3 DEF readRecord

(* The steps of loadSingleLog, which starts from m.                        *)
Reads(g, m, f, n) ==
    /\ g \in [0..Len(Readable(f)) -> Maps(n)]
    /\ g[0] = m
    /\ \A i \in 1..Len(Readable(f)) : g[i] = readRecord(g[i - 1], Readable(f)[i], n)

LEMMA LoadLoop ==
    ASSUME NEW n \in Nat, n # 0, NEW m \in Maps(n), NEW f \in LogFiles
    PROVE  \E g : Reads(g, m, f, n) /\ loadSingleLog(m, f, n) = g[Len(Readable(f))]
  <1> DEFINE records == Readable(f)
             N == Len(records)
             P(g) == g = [i \in 0..N |->
                             IF i = 0 THEN m ELSE readRecord(g[i - 1], records[i], n)]
             loaded == CHOOSE g : P(g)
             F == [p \in Maps(n) \X (1..N) |-> readRecord(p[1], records[p[2]], n)]
  <1>1. loadSingleLog(m, f, n) = loaded[N]
    BY DEF loadSingleLog
  <1>2. N \in Nat /\ \A i \in 1..N : records[i] \in Records
    BY ReadableTyped
  <1> HIDE DEF records, N
  <1>3. F \in [Maps(n) \X (1..N) -> Maps(n)]
    BY <1>2, ReadRecordTyped
  <1>4. \A x \in Maps(n), i \in 1..N : F[<<x, i>>] = readRecord(x, records[i], n)
    OBVIOUS
  <1> HIDE DEF F
  <1>5. PICK g \in [0..N -> Maps(n)] : g[0] = m /\ \A i \in 1..N : g[i] = F[<<g[i - 1], i>>]
    <2>1. \E g : IsLoop(g, m, N, Maps(n), F)
      BY <1>2, <1>3, LoopExists
    <2> QED
      BY <2>1, Zenon DEF IsLoop
  <1>6. P(g)
    <2>1. ASSUME NEW i \in 0..N
          PROVE  g[i] = IF i = 0 THEN m ELSE readRecord(g[i - 1], records[i], n)
      <3>1. CASE i = 0
        BY <1>5, <3>1
      <3>2. CASE i \in 1..N
        <4>1. i - 1 \in 0..N
          BY <1>2, <3>2
        <4>2. g[i - 1] \in Maps(n)
          BY <4>1
        <4> QED
          BY <1>4, <1>5, <3>2, <4>2
      <3> QED
        BY <1>2, <3>1, <3>2
    <2> QED
      BY <1>5, <2>1
  <1> HIDE DEF P
  <1>7. P(loaded)
    BY <1>6, Zenon
  <1> HIDE DEF loaded
  <1>8. /\ DOMAIN loaded = 0..N /\ loaded[0] = m
        /\ \A i \in 1..N : loaded[i] = readRecord(loaded[i - 1], records[i], n)
    BY <1>2, <1>7 DEF P
  <1>9. \A i \in 0..N : loaded[i] \in Maps(n)
    <2> DEFINE S == {k \in 0..N : loaded[k] \in Maps(n)}
    <2>1. 0 \in S
      BY <1>2, <1>8
    <2>2. ASSUME NEW k \in 0..N - 1, k \in S PROVE k + 1 \in S
      <3>1. k + 1 \in 1..N /\ (k + 1) - 1 = k
        BY <1>2
      <3>2. loaded[k + 1] = readRecord(loaded[k], records[k + 1], n)
        BY <1>8, <3>1
      <3> QED
        BY <1>2, <2>2, <3>1, <3>2, ReadRecordTyped
    <2> HIDE DEF S
    <2>3. 0..N \subseteq S
      BY <1>2, <2>1, <2>2, UpTo
    <2> QED
      BY <2>3 DEF S
  <1>10. loaded \in [0..N -> Maps(n)]
    <2>1. loaded = [i \in 0..N |-> loaded[i]]
      BY <1>7 DEF P
    <2> QED
      BY <1>9, <2>1
  <1>11. Reads(loaded, m, f, n)
    BY <1>8, <1>10 DEF Reads, records, N
  <1> QED
    BY <1>1, <1>11 DEF N, records

LEMMA LoadTyped ==
    ASSUME NEW n \in Nat, n # 0, NEW m \in Maps(n), NEW f \in LogFiles
    PROVE  loadSingleLog(m, f, n) \in Maps(n)
  <1>1. PICK g : Reads(g, m, f, n) /\ loadSingleLog(m, f, n) = g[Len(Readable(f))]
    BY LoadLoop
  <1>2. Len(Readable(f)) \in 0..Len(Readable(f))
    BY ReadableTyped
  <1> QED
    BY <1>1, <1>2 DEF Reads

LEMMA LoadEmpty ==
    ASSUME NEW n \in Nat, n # 0, NEW m \in Maps(n), NEW f \in LogFiles, Readable(f) = <<>>
    PROVE  loadSingleLog(m, f, n) = m
  <1>1. PICK g : Reads(g, m, f, n) /\ loadSingleLog(m, f, n) = g[Len(Readable(f))]
    BY LoadLoop
  <1>2. Len(Readable(f)) = 0
    OBVIOUS
  <1> QED
    BY <1>1, <1>2 DEF Reads

(* One more record is read last.                                           *)
LEMMA LoadAppend ==
    ASSUME NEW n \in Nat, n # 0, NEW m \in Maps(n), NEW f \in LogFiles, NEW h \in LogFiles,
           NEW r \in Records, Readable(h) = Append(Readable(f), r)
    PROVE  loadSingleLog(m, h, n) = readRecord(loadSingleLog(m, f, n), r, n)
  <1> DEFINE Q == Readable(f)
             N == Len(Q)
  <1>1. PICK a : Reads(a, m, f, n) /\ loadSingleLog(m, f, n) = a[Len(Readable(f))]
    BY LoadLoop
  <1>2. PICK b : Reads(b, m, h, n) /\ loadSingleLog(m, h, n) = b[Len(Readable(h))]
    BY LoadLoop
  <1>3. /\ N \in Nat /\ Len(Readable(h)) = N + 1 /\ Readable(h)[N + 1] = r
        /\ \A i \in 1..N : Readable(h)[i] = Q[i]
    BY ReadableTyped
  <1>4. a[0] = m /\ \A i \in 1..N : a[i] = readRecord(a[i - 1], Q[i], n)
    BY <1>1 DEF Reads
  <1>5. b[0] = m /\ \A i \in 1..N + 1 : b[i] = readRecord(b[i - 1], Readable(h)[i], n)
    BY <1>2, <1>3 DEF Reads
  <1> HIDE DEF Q, N
  <1> DEFINE S == {k \in 0..N : a[k] = b[k]}
  <1>6. 0 \in S
    BY <1>3, <1>4, <1>5
  <1>7. ASSUME NEW k \in 0..N - 1, k \in S PROVE k + 1 \in S
    <2>1. k + 1 \in 1..N /\ (k + 1) - 1 = k /\ k + 1 \in 1..N + 1 /\ k + 1 \in 0..N
      BY <1>3
    <2>2. a[k + 1] = readRecord(a[k], Q[k + 1], n)
      BY <1>4, <2>1
    <2>3. b[k + 1] = readRecord(b[k], Q[k + 1], n)
      BY <1>3, <1>5, <2>1
    <2> QED
      BY <1>7, <2>1, <2>2, <2>3
  <1> HIDE DEF S
  <1>8. 0..N \subseteq S
    BY <1>3, <1>6, <1>7, UpTo
  <1>9. a[N] = b[N]
    BY <1>3, <1>8 DEF S
  <1>10. b[N + 1] = readRecord(b[N], r, n)
    <2>1. N + 1 \in 1..N + 1 /\ (N + 1) - 1 = N
      BY <1>3
    <2> QED
      BY <1>3, <1>5, <2>1
  <1> QED
    BY <1>1, <1>2, <1>3, <1>9, <1>10 DEF N, Q

(* The steps of Replay.                                                    *)
Loads(g, L, n) ==
    /\ g \in [0..Len(L) -> Maps(n)]
    /\ g[0] = <<>>
    /\ \A i \in 1..Len(L) : g[i] = loadSingleLog(g[i - 1], L[i], n)

LEMMA EmptyMap ==
    ASSUME NEW n \in Nat
    PROVE  <<>> \in Maps(n)
  BY DEF Maps, Different

LEMMA ReplayLoop ==
    ASSUME NEW n \in Nat, n # 0, NEW L \in Seq(LogFiles)
    PROVE  \E g : Loads(g, L, n) /\ Replay(L, n) = g[Len(L)]
  <1> DEFINE N == Len(L)
             P(g) == g = [i \in 0..N |->
                             IF i = 0 THEN <<>> ELSE loadSingleLog(g[i - 1], L[i], n)]
             loaded == CHOOSE g : P(g)
             F == [p \in Maps(n) \X (1..N) |-> loadSingleLog(p[1], L[p[2]], n)]
  <1>1. Replay(L, n) = loaded[N]
    BY DEF Replay
  <1>2. N \in Nat /\ \A i \in 1..N : L[i] \in LogFiles
    OBVIOUS
  <1> HIDE DEF N
  <1>3. F \in [Maps(n) \X (1..N) -> Maps(n)]
    BY <1>2, LoadTyped
  <1>4. \A x \in Maps(n), i \in 1..N : F[<<x, i>>] = loadSingleLog(x, L[i], n)
    OBVIOUS
  <1> HIDE DEF F
  <1>5. PICK g \in [0..N -> Maps(n)] :
            g[0] = <<>> /\ \A i \in 1..N : g[i] = F[<<g[i - 1], i>>]
    <2>1. \E g : IsLoop(g, <<>>, N, Maps(n), F)
      BY <1>2, <1>3, EmptyMap, LoopExists
    <2> QED
      BY <2>1, Zenon DEF IsLoop
  <1>6. P(g)
    <2>1. ASSUME NEW i \in 0..N
          PROVE  g[i] = IF i = 0 THEN <<>> ELSE loadSingleLog(g[i - 1], L[i], n)
      <3>1. CASE i = 0
        BY <1>5, <3>1
      <3>2. CASE i \in 1..N
        <4>1. i - 1 \in 0..N
          BY <1>2, <3>2
        <4>2. g[i - 1] \in Maps(n)
          BY <4>1
        <4> QED
          BY <1>4, <1>5, <3>2, <4>2
      <3> QED
        BY <1>2, <3>1, <3>2
    <2> QED
      BY <1>5, <2>1
  <1> HIDE DEF P
  <1>7. P(loaded)
    BY <1>6, Zenon
  <1> HIDE DEF loaded
  <1>8. /\ DOMAIN loaded = 0..N /\ loaded[0] = <<>>
        /\ \A i \in 1..N : loaded[i] = loadSingleLog(loaded[i - 1], L[i], n)
    BY <1>2, <1>7 DEF P
  <1>9. \A i \in 0..N : loaded[i] \in Maps(n)
    <2> DEFINE S == {k \in 0..N : loaded[k] \in Maps(n)}
    <2>1. 0 \in S
      BY <1>2, <1>8, EmptyMap
    <2>2. ASSUME NEW k \in 0..N - 1, k \in S PROVE k + 1 \in S
      <3>1. k + 1 \in 1..N /\ (k + 1) - 1 = k
        BY <1>2
      <3>2. loaded[k + 1] = loadSingleLog(loaded[k], L[k + 1], n)
        BY <1>8, <3>1
      <3> QED
        BY <1>2, <2>2, <3>1, <3>2, LoadTyped
    <2> HIDE DEF S
    <2>3. 0..N \subseteq S
      BY <1>2, <2>1, <2>2, UpTo
    <2> QED
      BY <2>3 DEF S
  <1>10. loaded \in [0..N -> Maps(n)]
    <2>1. loaded = [i \in 0..N |-> loaded[i]]
      BY <1>7 DEF P
    <2> QED
      BY <1>9, <2>1
  <1>11. Loads(loaded, L, n)
    BY <1>8, <1>10 DEF Loads, N
  <1> QED
    BY <1>1, <1>11 DEF N

LEMMA ReplayTyped ==
    ASSUME NEW n \in Nat, NEW L \in Seq(LogFiles)
    PROVE  Replay(L, n) \in Maps(n)
  <1>1. CASE n = 0
    BY <1>1, EmptyMap DEF Replay
  <1>2. CASE n # 0
    <2>1. PICK g : Loads(g, L, n) /\ Replay(L, n) = g[Len(L)]
      BY <1>2, ReplayLoop
    <2> QED
      BY <2>1 DEF Loads
  <1> QED
    BY <1>1, <1>2

LEMMA ReplayEmpty ==
    ASSUME NEW n \in Nat
    PROVE  Replay(<<>>, n) = <<>>
  <1>1. CASE n = 0
    BY <1>1 DEF Replay
  <1>2. CASE n # 0
    <2>0. <<>> \in Seq(LogFiles) /\ Len(<<>>) = 0
      OBVIOUS
    <2>1. PICK g : Loads(g, <<>>, n) /\ Replay(<<>>, n) = g[Len(<<>>)]
      BY <1>2, <2>0, ReplayLoop
    <2> QED
      BY <2>0, <2>1 DEF Loads
  <1> QED
    BY <1>1, <1>2

(* Only what can be read of the files matters.                             *)
LEMMA LoadsAgree ==
    ASSUME NEW n \in Nat, n # 0, NEW L \in Seq(LogFiles), NEW K \in Seq(LogFiles),
           NEW N \in Nat, N <= Len(L), N <= Len(K),
           \A i \in 1..N : Readable(L[i]) = Readable(K[i]),
           NEW g, NEW h, Loads(g, L, n), Loads(h, K, n)
    PROVE  g[N] = h[N]
  <1> DEFINE S == {k \in 0..N : g[k] = h[k]}
  <1>1. 0 \in S
    BY DEF Loads
  <1>2. ASSUME NEW k \in 0..N - 1, k \in S PROVE k + 1 \in S
    <2>1. /\ k + 1 \in 1..N /\ (k + 1) - 1 = k /\ k + 1 \in 0..N
          /\ k + 1 \in 1..Len(L) /\ k + 1 \in 1..Len(K)
      OBVIOUS
    <2>2. g[k + 1] = loadSingleLog(g[k], L[k + 1], n)
      BY <2>1 DEF Loads
    <2>3. h[k + 1] = loadSingleLog(h[k], K[k + 1], n)
      BY <2>1 DEF Loads
    <2>4. Readable(L[k + 1]) = Readable(K[k + 1])
      BY <2>1
    <2>5. loadSingleLog(g[k], L[k + 1], n) = loadSingleLog(g[k], K[k + 1], n)
      BY <2>4, Zenon DEF loadSingleLog
    <2> QED
      BY <1>2, <2>1, <2>2, <2>3, <2>5
  <1> HIDE DEF S
  <1>3. 0..N \subseteq S
    BY <1>1, <1>2, UpTo
  <1> QED
    BY <1>3 DEF S

LEMMA ReplaySame ==
    ASSUME NEW n \in Nat, NEW L \in Seq(LogFiles), NEW K \in Seq(LogFiles), Len(L) = Len(K),
           \A i \in 1..Len(L) : Readable(L[i]) = Readable(K[i])
    PROVE  Replay(L, n) = Replay(K, n)
  <1>1. CASE n = 0
    BY <1>1 DEF Replay
  <1>2. CASE n # 0
    <2>1. PICK g : Loads(g, L, n) /\ Replay(L, n) = g[Len(L)]
      BY <1>2, ReplayLoop
    <2>2. PICK h : Loads(h, K, n) /\ Replay(K, n) = h[Len(K)]
      BY <1>2, ReplayLoop
    <2>3. g[Len(L)] = h[Len(L)]
      BY <1>2, <2>1, <2>2, LoadsAgree
    <2> QED
      BY <2>1, <2>2, <2>3
  <1> QED
    BY <1>1, <1>2

(* The files but the last are read first.                                  *)
LEMMA ReplayLast ==
    ASSUME NEW n \in Nat, n # 0, NEW L \in Seq(LogFiles), NEW K \in Seq(LogFiles),
           Len(K) = Len(L) + 1, \A i \in 1..Len(L) : Readable(K[i]) = Readable(L[i])
    PROVE  Replay(K, n) = loadSingleLog(Replay(L, n), K[Len(K)], n)
  <1>1. PICK g : Loads(g, L, n) /\ Replay(L, n) = g[Len(L)]
    BY ReplayLoop
  <1>2. PICK h : Loads(h, K, n) /\ Replay(K, n) = h[Len(K)]
    BY ReplayLoop
  <1>3. g[Len(L)] = h[Len(L)]
    BY <1>1, <1>2, LoadsAgree
  <1>4. Len(K) \in 1..Len(K) /\ Len(K) - 1 = Len(L)
    OBVIOUS
  <1>5. h[Len(K)] = loadSingleLog(h[Len(K) - 1], K[Len(K)], n)
    BY <1>2, <1>4 DEF Loads
  <1> QED
    BY <1>1, <1>2, <1>3, <1>4, <1>5

(***************************************************************************)
(* What happens to the files                                               *)
(***************************************************************************)
Since(L, k) == SubSeq(L, k + 1, Len(L))

LEMMA SinceTyped ==
    ASSUME NEW L \in Seq(LogFiles), NEW k \in 0..Len(L)
    PROVE  /\ Since(L, k) \in Seq(LogFiles)
           /\ Len(Since(L, k)) = Len(L) - k
           /\ \A i \in 1..Len(L) - k : Since(L, k)[i] = L[k + i]
  <1>1. k + 1 \in Int /\ Len(L) \in Int /\ \A i \in k + 1..Len(L) : L[i] \in LogFiles
    OBVIOUS
  <1>2. /\ SubSeq(L, k + 1, Len(L)) \in Seq(LogFiles)
        /\ Len(SubSeq(L, k + 1, Len(L))) = IF k + 1 <= Len(L) THEN Len(L) - (k + 1) + 1 ELSE 0
        /\ \A i \in 1..Len(L) - (k + 1) + 1 : SubSeq(L, k + 1, Len(L))[i] = L[k + 1 + i - 1]
    BY <1>1, SubSeqProperties
  <1> QED
    BY <1>2 DEF Since

LEMMA SinceStart ==
    ASSUME NEW L \in Seq(LogFiles)
    PROVE  Since(L, 0) = L
  <1>1. /\ Since(L, 0) \in Seq(LogFiles) /\ Len(Since(L, 0)) = Len(L)
        /\ \A i \in 1..Len(L) : Since(L, 0)[i] = L[i]
    BY SinceTyped
  <1> QED
    BY <1>1, SeqEqual

LEMMA SinceEnd ==
    ASSUME NEW L \in Seq(LogFiles)
    PROVE  Since(L, Len(L)) = <<>>
  BY SinceTyped

LEMMA SinceSince ==
    ASSUME NEW L \in Seq(LogFiles), NEW c \in 0..Len(L), NEW k \in 0..Len(L) - c
    PROVE  Since(Since(L, c), k) = Since(L, c + k)
  <1> DEFINE a == Since(L, c)
             s == Since(a, k)
             t == Since(L, c + k)
  <1>1. a \in Seq(LogFiles) /\ Len(a) = Len(L) - c /\ \A i \in 1..Len(L) - c : a[i] = L[c + i]
    BY SinceTyped
  <1>2. /\ s \in Seq(LogFiles) /\ Len(s) = Len(a) - k
        /\ \A i \in 1..Len(a) - k : s[i] = a[k + i]
    BY <1>1, SinceTyped
  <1>3. /\ t \in Seq(LogFiles) /\ Len(t) = Len(L) - (c + k)
        /\ \A i \in 1..Len(L) - (c + k) : t[i] = L[c + k + i]
    <2>1. c + k \in 0..Len(L)
      OBVIOUS
    <2> QED
      BY <2>1, SinceTyped
  <1> HIDE DEF a, s, t
  <1>4. Len(s) = Len(t)
    BY <1>1, <1>2, <1>3
  <1>5. ASSUME NEW i \in 1..Len(s) PROVE s[i] = t[i]
    <2>1. k + i \in 1..Len(L) - c /\ i \in 1..Len(L) - (c + k) /\ c + (k + i) = c + k + i
      BY <1>1, <1>2
    <2>2. s[i] = a[k + i] /\ a[k + i] = L[c + (k + i)] /\ t[i] = L[c + k + i]
      BY <1>1, <1>2, <1>3, <2>1
    <2> QED
      BY <2>1, <2>2
  <1>6. s = t
    BY <1>2, <1>3, <1>4, <1>5, SeqEqual
  <1> QED
    BY <1>6 DEF s, t, a

(* One record more in a file.                                              *)
WithRecord(f, r) == [f EXCEPT !.records = Append(@, r), !.count = @ + 1]

LEMMA WithRecordTyped ==
    ASSUME NEW f \in LogFiles, NEW r \in Records
    PROVE  /\ WithRecord(f, r) \in LogFiles
           /\ WithRecord(f, r).records = Append(f.records, r)
           /\ WithRecord(f, r).count = f.count + 1
           /\ WithRecord(f, r).torn = f.torn
  <1>1. /\ f \in [records : Seq(Records), count : Nat, torn : {NotTorn} \cup Nat]
        /\ f.records \in Seq(Records) /\ f.count \in Nat /\ f.torn <= Len(f.records)
        /\ f.torn \in {NotTorn} \cup Nat
    BY DEF LogFiles
  <1>2. Append(f.records, r) \in Seq(Records) /\ Len(Append(f.records, r)) = Len(f.records) + 1
    BY <1>1
  <1>3. /\ WithRecord(f, r) \in [records : Seq(Records), count : Nat, torn : {NotTorn} \cup Nat]
        /\ WithRecord(f, r).records = Append(f.records, r)
        /\ WithRecord(f, r).count = f.count + 1
        /\ WithRecord(f, r).torn = f.torn
    <2> DEFINE Q == Append(f.records, r)
               c == f.count + 1
               g == [f EXCEPT !.records = Q, !.count = c]
    <2>1. WithRecord(f, r) = g
      BY DEF WithRecord
    <2>2. Q \in Seq(Records) /\ c \in Nat
      BY <1>1, <1>2
    <2> HIDE DEF Q, c
    <2>3. f = [records |-> f.records, count |-> f.count, torn |-> f.torn]
      BY <1>1
    <2>4. g \in [records : Seq(Records), count : Nat, torn : {NotTorn} \cup Nat]
      BY <1>1, <2>2
    <2>5. g.records = Q /\ g.count = c /\ g.torn = f.torn
      BY <1>1
    <2> QED
      BY <2>1, <2>4, <2>5 DEF Q, c
  <1>4. f.torn <= Len(f.records) + 1
    BY <1>1 DEF NotTorn
  <1> QED
    BY <1>2, <1>3, <1>4 DEF LogFiles

LEMMA WriteTyped ==
    ASSUME NEW L \in Seq(LogFiles), L # <<>>, NEW r \in Records
    PROVE  /\ writeRecord(L, r) \in Seq(LogFiles)
           /\ Len(writeRecord(L, r)) = Len(L)
           /\ \A i \in 1..Len(L) :
                  writeRecord(L, r)[i] = IF i = Len(L) THEN WithRecord(L[i], r) ELSE L[i]
  <1>1. writeRecord(L, r) = [L EXCEPT ![Len(L)] = WithRecord(L[Len(L)], r)]
    BY DEF writeRecord, WithRecord
  <1>2. Len(L) \in 1..Len(L) /\ L[Len(L)] \in LogFiles
    OBVIOUS
  <1>3. WithRecord(L[Len(L)], r) \in LogFiles
    BY <1>2, WithRecordTyped
  <1> QED
    BY <1>1, <1>2, <1>3

LEMMA SinceWrite ==
    ASSUME NEW L \in Seq(LogFiles), NEW k \in 0..Len(L) - 1, NEW r \in Records
    PROVE  Since(writeRecord(L, r), k) = writeRecord(Since(L, k), r)
  <1> DEFINE w == writeRecord(L, r)
             a == Since(L, k)
             s == Since(w, k)
             t == writeRecord(a, r)
  <1>0. L # <<>> /\ k \in 0..Len(L) /\ Len(L) \in Nat
    OBVIOUS
  <1>1. /\ w \in Seq(LogFiles) /\ Len(w) = Len(L)
        /\ \A i \in 1..Len(L) : w[i] = IF i = Len(L) THEN WithRecord(L[i], r) ELSE L[i]
    BY <1>0, WriteTyped
  <1>2. /\ a \in Seq(LogFiles) /\ Len(a) = Len(L) - k
        /\ \A i \in 1..Len(L) - k : a[i] = L[k + i]
    BY <1>0, SinceTyped
  <1>3. /\ s \in Seq(LogFiles) /\ Len(s) = Len(w) - k
        /\ \A i \in 1..Len(w) - k : s[i] = w[k + i]
    BY <1>0, <1>1, SinceTyped
  <1>4. a # <<>>
    BY <1>0, <1>2
  <1>5. /\ t \in Seq(LogFiles) /\ Len(t) = Len(a)
        /\ \A i \in 1..Len(a) : t[i] = IF i = Len(a) THEN WithRecord(a[i], r) ELSE a[i]
    BY <1>2, <1>4, WriteTyped
  <1> HIDE DEF w, a, s, t
  <1>6. Len(s) = Len(t)
    BY <1>1, <1>2, <1>3, <1>5
  <1>7. ASSUME NEW i \in 1..Len(s) PROVE s[i] = t[i]
    <2>1. i \in 1..Len(L) - k /\ i \in 1..Len(w) - k /\ i \in 1..Len(a) /\ k + i \in 1..Len(L)
      BY <1>0, <1>1, <1>2, <1>3
    <2>2. k + i = Len(L) <=> i = Len(a)
      BY <1>0, <1>2, <2>1
    <2>3. s[i] = w[k + i] /\ a[i] = L[k + i]
      BY <1>2, <1>3, <2>1
    <2>4. w[k + i] = IF k + i = Len(L) THEN WithRecord(L[k + i], r) ELSE L[k + i]
      BY <1>1, <2>1
    <2>5. t[i] = IF i = Len(a) THEN WithRecord(a[i], r) ELSE a[i]
      BY <1>5, <2>1
    <2> QED
      BY <2>2, <2>3, <2>4, <2>5
  <1>8. s = t
    BY <1>3, <1>5, <1>6, <1>7, SeqEqual
  <1> QED
    BY <1>8 DEF s, t, w, a

(* A restart reads the record last that was written last, unless the file  *)
(* holds half a record.                                                    *)
LEMMA ReplayWrite ==
    ASSUME NEW n \in Nat, n # 0, NEW L \in Seq(LogFiles), L # <<>>,
           L[Len(L)].torn = NotTorn, NEW r \in Records
    PROVE  Replay(writeRecord(L, r), n) = readRecord(Replay(L, n), r, n)
  <1> DEFINE N == Len(L)
             K == SubSeq(L, 1, N - 1)
             w == writeRecord(L, r)
  <1>1. N \in Nat /\ N # 0 /\ L[N] \in LogFiles
    OBVIOUS
  <1>2. K \in Seq(LogFiles) /\ Len(K) = N - 1 /\ \A i \in 1..N - 1 : K[i] = L[i]
    <2>1. 1 \in Int /\ N - 1 \in Int /\ \A i \in 1..N - 1 : L[i] \in LogFiles
      BY <1>1
    <2>2. /\ K \in Seq(LogFiles)
          /\ Len(K) = IF 1 <= N - 1 THEN (N - 1) - 1 + 1 ELSE 0
          /\ \A i \in 1..(N - 1) - 1 + 1 : K[i] = L[1 + i - 1]
      BY <2>1, SubSeqProperties
    <2>3. (N - 1) - 1 + 1 = N - 1 /\ \A i \in 1..N - 1 : 1 + i - 1 = i
      BY <1>1
    <2> HIDE DEF K, N
    <2>4. Len(K) = N - 1
      BY <1>1, <2>2
    <2> QED
      BY <2>2, <2>3, <2>4
  <1>3. /\ w \in Seq(LogFiles) /\ Len(w) = N
        /\ \A i \in 1..N : w[i] = IF i = N THEN WithRecord(L[i], r) ELSE L[i]
    BY WriteTyped
  <1> HIDE DEF N, K, w
  <1>4. Replay(L, n) = loadSingleLog(Replay(K, n), L[N], n)
    <2>1. Len(L) = Len(K) + 1 /\ \A i \in 1..Len(K) : Readable(L[i]) = Readable(K[i])
      BY <1>1, <1>2 DEF N
    <2>2. Replay(L, n) = loadSingleLog(Replay(K, n), L[Len(L)], n)
      BY <1>2, <2>1, ReplayLast
    <2> QED
      BY <2>2 DEF N
  <1>5. Replay(w, n) = loadSingleLog(Replay(K, n), w[N], n)
    <2>1. Len(w) = Len(K) + 1 /\ \A i \in 1..Len(K) : Readable(w[i]) = Readable(K[i])
      BY <1>1, <1>2, <1>3
    <2>2. Replay(w, n) = loadSingleLog(Replay(K, n), w[Len(w)], n)
      BY <1>2, <1>3, <2>1, ReplayLast
    <2> QED
      BY <1>3, <2>2
  <1>6. w[N] = WithRecord(L[N], r)
    BY <1>1, <1>3
  <1>7. Readable(WithRecord(L[N], r)) = Append(Readable(L[N]), r)
    BY <1>1, WithRecordTyped DEF Readable, N
  <1>8. WithRecord(L[N], r) \in LogFiles
    BY <1>1, WithRecordTyped
  <1>9. Replay(K, n) \in Maps(n)
    BY <1>2, ReplayTyped
  <1>10. loadSingleLog(Replay(K, n), WithRecord(L[N], r), n)
            = readRecord(loadSingleLog(Replay(K, n), L[N], n), r, n)
    BY <1>1, <1>7, <1>8, <1>9, LoadAppend
  <1> QED
    BY <1>4, <1>5, <1>6, <1>10 DEF w

LEMMA NewLogTyped == NewLog \in LogFiles /\ Readable(NewLog) = <<>>
  BY DEF NewLog, LogFiles, Readable, NotTorn

LEMMA SinceRotate ==
    ASSUME NEW L \in Seq(LogFiles), NEW k \in 0..Len(L)
    PROVE  Since(Append(L, NewLog), k) = Append(Since(L, k), NewLog)
  <1> DEFINE w == Append(L, NewLog)
             a == Since(L, k)
             s == Since(w, k)
             t == Append(a, NewLog)
  <1>0. NewLog \in LogFiles /\ Len(L) \in Nat
    BY NewLogTyped
  <1>1. /\ w \in Seq(LogFiles) /\ Len(w) = Len(L) + 1
        /\ \A i \in 1..Len(L) + 1 : w[i] = IF i = Len(L) + 1 THEN NewLog ELSE L[i]
    BY <1>0
  <1>2. /\ a \in Seq(LogFiles) /\ Len(a) = Len(L) - k
        /\ \A i \in 1..Len(L) - k : a[i] = L[k + i]
    BY SinceTyped
  <1> HIDE DEF w, a
  <1>3. /\ s \in Seq(LogFiles) /\ Len(s) = Len(w) - k
        /\ \A i \in 1..Len(w) - k : s[i] = w[k + i]
    <2>1. k \in 0..Len(w)
      BY <1>0, <1>1
    <2> QED
      BY <1>1, <2>1, SinceTyped
  <1>4. /\ t \in Seq(LogFiles) /\ Len(t) = Len(a) + 1
        /\ \A i \in 1..Len(a) + 1 : t[i] = IF i = Len(a) + 1 THEN NewLog ELSE a[i]
    <2>1. a \in Seq(LogFiles) /\ NewLog \in LogFiles
      BY <1>0, <1>2
    <2> HIDE DEF t
    <2>2. t = Append(a, NewLog)
      BY DEF t
    <2> QED
      BY <2>1, <2>2
  <1> HIDE DEF s, t
  <1>5. Len(s) = Len(t)
    BY <1>0, <1>1, <1>2, <1>3, <1>4
  <1>6. ASSUME NEW i \in 1..Len(s) PROVE s[i] = t[i]
    <2>1. /\ i \in 1..Len(w) - k /\ i \in 1..Len(a) + 1 /\ k + i \in 1..Len(L) + 1
          /\ (k + i = Len(L) + 1 <=> i = Len(a) + 1)
          /\ (i # Len(a) + 1 => i \in 1..Len(L) - k)
      <3>1. /\ Len(a) = Len(L) - k /\ Len(w) = Len(L) + 1 /\ Len(s) = Len(L) + 1 - k
            /\ i \in 1..Len(s)
        BY <1>1, <1>2, <1>3
      <3> QED
        BY <1>0, <3>1
    <2>2. s[i] = w[k + i]
      BY <1>3, <2>1
    <2>3. w[k + i] = IF k + i = Len(L) + 1 THEN NewLog ELSE L[k + i]
      BY <1>1, <2>1
    <2>4. t[i] = IF i = Len(a) + 1 THEN NewLog ELSE a[i]
      BY <1>4, <2>1
    <2>5. i # Len(a) + 1 => a[i] = L[k + i]
      BY <1>2, <2>1
    <2> QED
      BY <2>1, <2>2, <2>3, <2>4, <2>5
  <1>7. s = t
    BY <1>3, <1>4, <1>5, <1>6, SeqEqual
  <1> QED
    BY <1>7 DEF s, t, w, a

LEMMA ReplayRotate ==
    ASSUME NEW n \in Nat, n # 0, NEW L \in Seq(LogFiles)
    PROVE  Replay(Append(L, NewLog), n) = Replay(L, n)
  <1> DEFINE w == Append(L, NewLog)
  <1>1. /\ w \in Seq(LogFiles) /\ Len(w) = Len(L) + 1 /\ w[Len(w)] = NewLog
        /\ \A i \in 1..Len(L) : Readable(w[i]) = Readable(L[i])
    BY NewLogTyped
  <1> HIDE DEF w
  <1>2. Replay(w, n) = loadSingleLog(Replay(L, n), w[Len(w)], n)
    BY <1>1, ReplayLast
  <1>3. loadSingleLog(Replay(L, n), NewLog, n) = Replay(L, n)
    BY NewLogTyped, ReplayTyped, LoadEmpty
  <1> QED
    BY <1>1, <1>2, <1>3 DEF w

(* The sums that dropOutdatedLogs goes through.                            *)
Sums(g, L) ==
    /\ g \in [0..Len(L) -> Nat]
    /\ g[0] = 0
    /\ \A k \in 1..Len(L) : g[k] = g[k - 1] + L[Len(L) - k + 1].count

LEMMA NewerLoop ==
    ASSUME NEW L \in Seq(LogFiles)
    PROVE  \E g : Sums(g, L) /\ \A i \in 0..Len(L) : NewerRecords(L, i) = g[Len(L) - i]
  <1> DEFINE N == Len(L)
             P(g) == g = [k \in 0..N |-> IF k = 0 THEN 0 ELSE g[k - 1] + L[N - k + 1].count]
             newest == CHOOSE g : P(g)
             F == [p \in Nat \X (1..N) |-> p[1] + L[N - p[2] + 1].count]
  <1>1. \A i \in 0..N : NewerRecords(L, i) = newest[N - i]
    BY DEF NewerRecords
  <1>2. N \in Nat /\ \A k \in 1..N : L[N - k + 1].count \in Nat
    <2>1. N \in Nat /\ \A k \in 1..N : L[N - k + 1] \in LogFiles
      OBVIOUS
    <2> QED
      BY <2>1 DEF LogFiles
  <1> HIDE DEF N
  <1>3. F \in [Nat \X (1..N) -> Nat]
    BY <1>2
  <1>4. \A x \in Nat, k \in 1..N : F[<<x, k>>] = x + L[N - k + 1].count
    OBVIOUS
  <1> HIDE DEF F
  <1>5. PICK g \in [0..N -> Nat] : g[0] = 0 /\ \A k \in 1..N : g[k] = F[<<g[k - 1], k>>]
    <2>1. \E g : IsLoop(g, 0, N, Nat, F)
      BY <1>2, <1>3, LoopExists
    <2> QED
      BY <2>1, Zenon DEF IsLoop
  <1>6. P(g)
    <2>1. ASSUME NEW k \in 0..N
          PROVE  g[k] = IF k = 0 THEN 0 ELSE g[k - 1] + L[N - k + 1].count
      <3>1. CASE k = 0
        BY <1>5, <3>1
      <3>2. CASE k \in 1..N
        <4>1. k - 1 \in 0..N
          BY <1>2, <3>2
        <4>2. g[k - 1] \in Nat
          BY <4>1
        <4> QED
          BY <1>4, <1>5, <3>2, <4>2
      <3> QED
        BY <1>2, <3>1, <3>2
    <2> QED
      BY <1>5, <2>1
  <1> HIDE DEF P
  <1>7. P(newest)
    BY <1>6, Zenon
  <1> HIDE DEF newest
  <1>8. /\ DOMAIN newest = 0..N /\ newest[0] = 0
        /\ \A k \in 1..N : newest[k] = newest[k - 1] + L[N - k + 1].count
    <2>1. DOMAIN newest = 0..N
      BY <1>7 DEF P
    <2>2. \A k \in 0..N :
              newest[k] = IF k = 0 THEN 0 ELSE newest[k - 1] + L[N - k + 1].count
      BY <1>7 DEF P
    <2>3. 0 \in 0..N /\ \A k \in 1..N : k \in 0..N /\ k # 0
      BY <1>2
    <2> QED
      BY <2>1, <2>2, <2>3
  <1>9. \A k \in 0..N : newest[k] \in Nat
    <2> DEFINE S == {k \in 0..N : newest[k] \in Nat}
    <2>1. 0 \in S
      BY <1>2, <1>8
    <2>2. ASSUME NEW k \in 0..N - 1, k \in S PROVE k + 1 \in S
      <3>1. k + 1 \in 1..N /\ (k + 1) - 1 = k
        BY <1>2
      <3>2. newest[k + 1] = newest[k] + L[N - (k + 1) + 1].count
        BY <1>8, <3>1
      <3> QED
        BY <1>2, <2>2, <3>1, <3>2
    <2> HIDE DEF S
    <2>3. 0..N \subseteq S
      BY <1>2, <2>1, <2>2, UpTo
    <2> QED
      BY <2>3 DEF S
  <1>10. newest \in [0..N -> Nat]
    <2>1. newest = [k \in 0..N |-> newest[k]]
      BY <1>7 DEF P
    <2> QED
      BY <1>9, <2>1
  <1>11. Sums(newest, L)
    BY <1>8, <1>10 DEF Sums, N
  <1> QED
    BY <1>1, <1>11 DEF N

LEMMA NewerTyped ==
    ASSUME NEW L \in Seq(LogFiles), NEW i \in 0..Len(L)
    PROVE  NewerRecords(L, i) \in Nat /\ (i = Len(L) => NewerRecords(L, i) = 0)
  <1>1. PICK g : Sums(g, L) /\ \A k \in 0..Len(L) : NewerRecords(L, k) = g[Len(L) - k]
    BY NewerLoop
  <1>2. Len(L) - i \in 0..Len(L)
    OBVIOUS
  <1> QED
    BY <1>1, <1>2 DEF Sums

(* Files with no more records, or d more in the last one, have no more in  *)
(* sum, or d more.                                                         *)
LEMMA NewerBound ==
    ASSUME NEW L \in Seq(LogFiles), NEW K \in Seq(LogFiles), NEW i \in 0..Len(L),
           NEW j \in 0..Len(K), Len(L) - i = Len(K) - j, NEW d \in Nat,
           \A p \in 1..Len(L) - i :
               K[j + p].count <= L[i + p].count + (IF p = Len(L) - i THEN d ELSE 0)
    PROVE  NewerRecords(K, j) <= NewerRecords(L, i) + d
  <1> DEFINE N == Len(L) - i
  <1>1. PICK g : Sums(g, L) /\ \A k \in 0..Len(L) : NewerRecords(L, k) = g[Len(L) - k]
    BY NewerLoop
  <1>2. PICK h : Sums(h, K) /\ \A k \in 0..Len(K) : NewerRecords(K, k) = h[Len(K) - k]
    BY NewerLoop
  <1>3. N \in Nat /\ N <= Len(L) /\ N <= Len(K) /\ Len(L) \in Nat /\ Len(K) \in Nat
    OBVIOUS
  <1> DEFINE S == {k \in 0..N : h[k] <= g[k] + (IF k = 0 THEN 0 ELSE d)}
  <1>4. 0 \in S
    BY <1>1, <1>2, <1>3 DEF Sums
  <1>5. ASSUME NEW k \in 0..N - 1, k \in S PROVE k + 1 \in S
    <2> DEFINE p == N - k
    <2>1. /\ k + 1 \in 1..Len(L) /\ k + 1 \in 1..Len(K) /\ (k + 1) - 1 = k /\ p \in 1..N
          /\ Len(L) - (k + 1) + 1 = i + p /\ Len(K) - (k + 1) + 1 = j + p
          /\ i + p \in 1..Len(L) /\ j + p \in 1..Len(K) /\ (p = N <=> k = 0)
          /\ k \in 0..Len(L) /\ k \in 0..Len(K) /\ k + 1 \in 0..N
      BY <1>3
    <2> HIDE DEF p
    <2>2. g[k + 1] = g[k] + L[i + p].count
      BY <1>1, <2>1 DEF Sums
    <2>3. h[k + 1] = h[k] + K[j + p].count
      BY <1>2, <2>1 DEF Sums
    <2>4. K[j + p].count <= L[i + p].count + (IF k = 0 THEN d ELSE 0)
      BY <2>1
    <2>5. g[k] \in Nat /\ h[k] \in Nat
      BY <1>1, <1>2, <2>1 DEF Sums
    <2>6. L[i + p].count \in Nat /\ K[j + p].count \in Nat
      BY <2>1 DEF LogFiles
    <2>7. h[k] <= g[k] + (IF k = 0 THEN 0 ELSE d)
      BY <1>5
    <2>8. h[k + 1] <= g[k + 1] + d
      <3> DEFINE x == g[k]
                 y == h[k]
                 l == L[i + p].count
                 c == K[j + p].count
      <3>1. /\ x \in Nat /\ y \in Nat /\ l \in Nat /\ c \in Nat
            /\ c <= l + (IF k = 0 THEN d ELSE 0) /\ y <= x + (IF k = 0 THEN 0 ELSE d)
        BY <2>4, <2>5, <2>6, <2>7
      <3> HIDE DEF x, y, l, c
      <3>2. y + c <= x + l + d
        <4>1. CASE k = 0
          BY <3>1, <4>1
        <4>2. CASE k # 0
          BY <3>1, <4>2
        <4> QED
          BY <4>1, <4>2
      <3> QED
        BY <2>2, <2>3, <3>2 DEF x, y, l, c
    <2> QED
      BY <2>1, <2>8
  <1> HIDE DEF S
  <1>6. 0..N \subseteq S
    BY <1>3, <1>4, <1>5, UpTo
  <1>7. N \in S
    BY <1>3, <1>6
  <1>8. g[N] \in Nat /\ h[N] <= g[N] + (IF N = 0 THEN 0 ELSE d)
    <2>1. N \in 0..Len(L)
      BY <1>3
    <2> QED
      BY <1>1, <1>7, <2>1 DEF Sums, S
  <1>9. h[N] \in Nat
    <2>1. N \in 0..Len(K)
      BY <1>3
    <2> QED
      BY <1>2, <2>1 DEF Sums
  <1>10. NewerRecords(L, i) = g[N] /\ NewerRecords(K, j) = h[N]
    BY <1>1, <1>2
  <1> HIDE DEF N
  <1> QED
    BY <1>8, <1>9, <1>10

(* A new file has no records.                                              *)
LEMMA NewerRotate ==
    ASSUME NEW L \in Seq(LogFiles), NEW i \in 0..Len(L)
    PROVE  NewerRecords(Append(L, NewLog), i) = NewerRecords(L, i)
  <1> DEFINE N == Len(L)
             w == Append(L, NewLog)
  <1>0. NewLog \in LogFiles /\ NewLog.count = 0
    BY NewLogTyped DEF NewLog
  <1>1. /\ N \in Nat /\ w \in Seq(LogFiles) /\ Len(w) = N + 1 /\ w[N + 1] = NewLog
        /\ \A k \in 1..N : w[k] = L[k]
    BY <1>0
  <1> HIDE DEF w
  <1>2. PICK g : Sums(g, L) /\ \A k \in 0..Len(L) : NewerRecords(L, k) = g[Len(L) - k]
    BY NewerLoop
  <1>3. PICK h : Sums(h, w) /\ \A k \in 0..Len(w) : NewerRecords(w, k) = h[Len(w) - k]
    BY <1>1, NewerLoop
  <1>4. h[0] = 0 /\ \A k \in 1..N + 1 : h[k] = h[k - 1] + w[N + 1 - k + 1].count
    BY <1>1, <1>3 DEF Sums
  <1>5. g[0] = 0 /\ \A k \in 1..N : g[k] = g[k - 1] + L[N - k + 1].count
    BY <1>2 DEF Sums
  <1> DEFINE S == {k \in 0..N : h[k + 1] = g[k]}
  <1>6. 0 \in S
    <2>1. 1 \in 1..N + 1 /\ N + 1 - 1 + 1 = N + 1 /\ 1 - 1 = 0
      BY <1>1
    <2>2. h[1] = h[0] + w[N + 1].count
      BY <1>4, <2>1
    <2> QED
      BY <1>0, <1>1, <1>4, <1>5, <2>2
  <1>7. ASSUME NEW k \in 0..N - 1, k \in S PROVE k + 1 \in S
    <2>1. /\ k + 1 \in 1..N /\ k + 1 + 1 \in 1..N + 1 /\ N - (k + 1) + 1 \in 1..N
          /\ N + 1 - (k + 1 + 1) + 1 = N - (k + 1) + 1 /\ k + 1 + 1 - 1 = k + 1 /\ k + 1 - 1 = k
          /\ k + 1 \in 0..N
      BY <1>1
    <2>2. h[k + 1 + 1] = h[k + 1] + w[N - (k + 1) + 1].count
      BY <1>4, <2>1
    <2>3. g[k + 1] = g[k] + L[N - (k + 1) + 1].count
      <3> HIDE DEF N
      <3>1. k + 1 \in 1..N /\ k + 1 - 1 = k
        BY <2>1
      <3>2. g[k + 1] = g[k + 1 - 1] + L[N - (k + 1) + 1].count
        BY <1>5, <3>1
      <3> QED
        BY <3>1, <3>2
    <2>4. w[N - (k + 1) + 1] = L[N - (k + 1) + 1]
      BY <1>1, <2>1
    <2>5. h[k + 1] = g[k]
      BY <1>7
    <2> QED
      BY <2>1, <2>2, <2>3, <2>4, <2>5
  <1> HIDE DEF S
  <1>8. 0..N \subseteq S
    BY <1>1, <1>6, <1>7, UpTo
  <1>9. h[N - i + 1] = g[N - i]
    <2>1. N - i \in 0..N
      BY <1>1
    <2> QED
      BY <1>8, <2>1 DEF S
  <1>10. NewerRecords(w, i) = h[Len(w) - i]
    <2>1. i \in 0..Len(w)
      BY <1>1
    <2> QED
      BY <1>3, <2>1
  <1>11. Len(w) - i = N - i + 1
    BY <1>1
  <1> QED
    BY <1>2, <1>9, <1>10, <1>11 DEF w

LEMMA MaxExists ==
    ASSUME NEW N \in Nat, NEW A \in SUBSET (0..N), 0 \in A
    PROVE  Max(A) \in A
  <1> DEFINE S == {k \in 0..N : \E x \in A : x <= k /\ \A y \in A : y <= k => x >= y}
  <1>1. 0 \in S
    <2>1. \A y \in A : y <= 0 => 0 >= y
      OBVIOUS
    <2> QED
      BY <2>1
  <1>2. ASSUME NEW k \in 0..N - 1, k \in S PROVE k + 1 \in S
    <2>1. PICK x \in A : x <= k /\ \A y \in A : y <= k => x >= y
      BY <1>2
    <2>2. CASE k + 1 \in A
      <3>1. \A y \in A : y <= k + 1 => k + 1 >= y
        OBVIOUS
      <3> QED
        BY <2>2, <3>1
    <2>3. CASE k + 1 \notin A
      <3>1. \A y \in A : y <= k + 1 => x >= y
        BY <2>1, <2>3
      <3>2. x <= k + 1
        BY <2>1
      <3> QED
        BY <2>1, <3>1, <3>2
    <2> QED
      BY <2>2, <2>3
  <1> HIDE DEF S
  <1>3. 0..N \subseteq S
    BY <1>1, <1>2, UpTo
  <1>4. N \in S
    BY <1>3
  <1>5. PICK x \in A : \A y \in A : y <= N => x >= y
    BY <1>4 DEF S
  <1>6. \A y \in A : x >= y
    BY <1>5
  <1> QED
    BY <1>6, Zenon DEF Max

(* The files that stay, and why the others went.                           *)
LEMMA DropOutdated ==
    ASSUME NEW n \in Nat, NEW L \in Seq(LogFiles)
    PROVE  \E c \in 0..Len(L) : /\ dropOutdatedLogs(L, n) = Since(L, c)
                                /\ c = 0 \/ NewerRecords(L, c) > n
  <1> DEFINE A == {i \in DOMAIN L : NewerRecords(L, i) > n} \cup {0}
  <1>1. DOMAIN L = 1..Len(L) /\ Len(L) \in Nat
    OBVIOUS
  <1>2. A \in SUBSET (0..Len(L)) /\ 0 \in A
    BY <1>1
  <1>3. dropOutdatedLogs(L, n) = Since(L, Max(A))
    BY DEF dropOutdatedLogs, Since
  <1>4. \A c \in A : c = 0 \/ NewerRecords(L, c) > n
    OBVIOUS
  <1> HIDE DEF A
  <1>5. Max(A) \in A
    BY <1>1, <1>2, MaxExists
  <1> QED
    BY <1>2, <1>3, <1>4, <1>5

(* The files after rotateAndDropIfNeeded.                                  *)
LEMMA RotateShape ==
    ASSUME NEW n \in Nat, NEW L \in Seq(LogFiles)
    PROVE  \E B \in {L, rotate(L, n)} :
               /\ L = <<>> => B = rotate(L, n)
               /\ \E c \in 0..Len(B) : /\ rotateAndDropIfNeeded(L, n) = Since(B, c)
                                       /\ c = 0 \/ NewerRecords(B, c) > n
  <1>1. rotate(L, n) \in Seq(LogFiles)
    BY NewLogTyped DEF rotate
  <1>2. CASE L = <<>> \/ Last(L).count >= rotate_interval(n) \/ ~append
    <2>1. rotateAndDropIfNeeded(L, n) = dropOutdatedLogs(rotate(L, n), n)
      BY <1>2 DEF rotateAndDropIfNeeded
    <2> DEFINE B == rotate(L, n)
    <2> HIDE DEF B
    <2>2. PICK c \in 0..Len(B) : dropOutdatedLogs(B, n) = Since(B, c)
                                 /\ (c = 0 \/ NewerRecords(B, c) > n)
      BY <1>1, DropOutdated DEF B
    <2> QED
      BY <2>1, <2>2, Zenon DEF B
  <1>3. CASE ~(L = <<>> \/ Last(L).count >= rotate_interval(n) \/ ~append)
    <2>1. rotateAndDropIfNeeded(L, n) = Since(L, 0)
      BY <1>3, SinceStart DEF rotateAndDropIfNeeded
    <2>2. 0 \in 0..Len(L)
      OBVIOUS
    <2> QED
      BY <1>3, <2>1, <2>2
  <1> QED
    BY <1>2, <1>3

(***************************************************************************)
(* What the files say about the map, for every window up to w: reading the *)
(* files since the k-th with a window n finds an end of the map, and more  *)
(* files or a larger window only a longer one.                             *)
(***************************************************************************)
Sound(M, L, w) ==
    /\ \A k, j \in 0..Len(L), n, p \in 1..w : k >= j /\ n <= p =>
           EndsWith(Replay(Since(L, k), n), Replay(Since(L, j), p))
    /\ \A k \in 0..Len(L), n \in 1..w : EndsWith(Replay(Since(L, k), n), M)

(* As long as nothing was dropped, files with enough records are enough    *)
(* for the whole map.                                                      *)
Whole(M, L, w) ==
    /\ \A k \in 0..Len(L), n \in 1..w :
           \/ Len(Replay(Since(L, k), n)) >= n
           \/ Len(Replay(Since(L, k), n)) >= NewerRecords(L, k)
    /\ \A n \in 1..w : Len(Replay(L, n)) >= n \/ Len(Replay(L, n)) >= Len(M)

(* The counts of the files, which may be too small but never too large.    *)
Counts(L) ==
    \A i \in 1..Len(L) :
        \/ L[i].torn = NotTorn /\ L[i].count = Len(L[i].records)
        \/ L[i].torn = Len(L[i].records) /\ L[i].count <= Len(L[i].records)

LEMMA SoundRotate ==
    ASSUME NEW w \in Nat, NEW L \in Seq(LogFiles), NEW M \in Seq(Entries), Sound(M, L, w)
    PROVE  Sound(M, Append(L, NewLog), w)
  <1> DEFINE K == Append(L, NewLog)
             N == Len(L)
  <1>1. K \in Seq(LogFiles) /\ Len(K) = N + 1 /\ N \in Nat
    BY NewLogTyped
  <1>2. \A k \in 0..N, n \in 1..w : Replay(Since(K, k), n) = Replay(Since(L, k), n)
    <2>1. ASSUME NEW k \in 0..N, NEW n \in 1..w
          PROVE  Replay(Since(K, k), n) = Replay(Since(L, k), n)
      <3>1. Since(K, k) = Append(Since(L, k), NewLog)
        BY SinceRotate
      <3>2. Since(L, k) \in Seq(LogFiles) /\ n \in Nat /\ n # 0
        BY SinceTyped
      <3> QED
        BY <3>1, <3>2, ReplayRotate
    <2> QED
      BY <2>1
  <1>3. \A n \in 1..w : Replay(Since(K, N + 1), n) = <<>>
    <2>1. Since(K, N + 1) = <<>>
      BY <1>1, SinceEnd
    <2> QED
      BY <2>1, ReplayEmpty
  <1> HIDE DEF K, N
  <1>4. \A k \in 0..N + 1, n \in 1..w : Replay(Since(K, k), n) \in Seq(Entries)
    <2>1. ASSUME NEW k \in 0..N + 1, NEW n \in 1..w
          PROVE  Replay(Since(K, k), n) \in Seq(Entries)
      <3>1. Since(K, k) \in Seq(LogFiles) /\ n \in Nat
        BY <1>1, SinceTyped
      <3> QED
        BY <3>1, ReplayTyped DEF Maps
    <2> QED
      BY <2>1
  <1>5. ASSUME NEW k \in 0..N + 1, NEW j \in 0..N + 1, NEW n \in 1..w, NEW p \in 1..w,
               k >= j, n <= p
        PROVE  EndsWith(Replay(Since(K, k), n), Replay(Since(K, j), p))
    <2>1. CASE k = N + 1
      <3>1. Replay(Since(K, j), p) \in Seq(Entries)
        BY <1>4
      <3> QED
        BY <1>3, <2>1, <3>1, EndsEmpty
    <2>2. CASE k # N + 1
      <3>1. k \in 0..N /\ j \in 0..N
        BY <1>1, <1>5, <2>2
      <3>2. EndsWith(Replay(Since(L, k), n), Replay(Since(L, j), p))
        BY <1>5, <3>1 DEF Sound, N
      <3> QED
        BY <1>2, <3>1, <3>2
    <2> QED
      BY <2>1, <2>2
  <1>6. ASSUME NEW k \in 0..N + 1, NEW n \in 1..w PROVE EndsWith(Replay(Since(K, k), n), M)
    <2>1. CASE k = N + 1
      BY <1>3, <2>1, EndsEmpty
    <2>2. CASE k # N + 1
      <3>1. k \in 0..N
        BY <1>1, <2>2
      <3>2. EndsWith(Replay(Since(L, k), n), M)
        BY <3>1 DEF Sound, N
      <3> QED
        BY <1>2, <3>1, <3>2
    <2> QED
      BY <2>1, <2>2
  <1> QED
    BY <1>1, <1>5, <1>6 DEF Sound, K

(* Removing the oldest files.                                              *)
LEMMA SoundSince ==
    ASSUME NEW w \in Nat, NEW L \in Seq(LogFiles), NEW M, NEW c \in 0..Len(L), Sound(M, L, w)
    PROVE  Sound(M, Since(L, c), w)
  <1> DEFINE K == Since(L, c)
             N == Len(L)
  <1>1. N \in Nat /\ c \in 0..N /\ Len(K) = N - c
    BY SinceTyped
  <1>2. \A k \in 0..N - c : c + k \in 0..N /\ Since(K, k) = Since(L, c + k)
    BY <1>1, SinceSince
  <1> HIDE DEF K
  <1>3. \A k, j \in 0..N, n, p \in 1..w : k >= j /\ n <= p =>
           EndsWith(Replay(Since(L, k), n), Replay(Since(L, j), p))
    BY DEF Sound
  <1>4. \A k \in 0..N, n \in 1..w : EndsWith(Replay(Since(L, k), n), M)
    BY DEF Sound
  <1> HIDE DEF N
  <1>5. ASSUME NEW k \in 0..N - c, NEW j \in 0..N - c, NEW n \in 1..w, NEW p \in 1..w,
               k >= j, n <= p
        PROVE  EndsWith(Replay(Since(K, k), n), Replay(Since(K, j), p))
    <2>1. c + k >= c + j
      BY <1>1, <1>5
    <2> QED
      BY <1>2, <1>3, <1>5, <2>1
  <1>6. ASSUME NEW k \in 0..N - c, NEW n \in 1..w PROVE EndsWith(Replay(Since(K, k), n), M)
    BY <1>2, <1>4
  <1> QED
    BY <1>1, <1>5, <1>6 DEF Sound, K

LEMMA WholeRotate ==
    ASSUME NEW w \in Nat, NEW L \in Seq(LogFiles), NEW M \in Seq(Entries), Whole(M, L, w)
    PROVE  Whole(M, Append(L, NewLog), w)
  <1> DEFINE K == Append(L, NewLog)
             N == Len(L)
  <1>1. K \in Seq(LogFiles) /\ Len(K) = N + 1 /\ N \in Nat
    BY NewLogTyped
  <1>2. ASSUME NEW n \in 1..w
        PROVE  Len(Replay(K, n)) >= n \/ Len(Replay(K, n)) >= Len(M)
    <2>1. Replay(K, n) = Replay(L, n)
      BY ReplayRotate
    <2> QED
      BY <2>1 DEF Whole
  <1>3. ASSUME NEW k \in 0..N + 1, NEW n \in 1..w
        PROVE  \/ Len(Replay(Since(K, k), n)) >= n
               \/ Len(Replay(Since(K, k), n)) >= NewerRecords(K, k)
    <2>1. CASE k = N + 1
      <3>1. Since(K, k) = <<>>
        BY <1>1, <2>1, SinceEnd
      <3>2. Len(Replay(Since(K, k), n)) = 0
        BY <3>1, ReplayEmpty
      <3>3. NewerRecords(K, k) = 0
        BY <1>1, <2>1, NewerTyped
      <3> QED
        BY <3>2, <3>3
    <2>2. CASE k \in 0..N
      <3>1. Since(K, k) = Append(Since(L, k), NewLog)
        BY <2>2, SinceRotate
      <3>2. Since(L, k) \in Seq(LogFiles) /\ n \in Nat /\ n # 0
        BY <2>2, SinceTyped
      <3>3. Replay(Since(K, k), n) = Replay(Since(L, k), n)
        BY <3>1, <3>2, ReplayRotate
      <3>4. NewerRecords(K, k) = NewerRecords(L, k)
        BY <2>2, NewerRotate
      <3>5. \/ Len(Replay(Since(L, k), n)) >= n
            \/ Len(Replay(Since(L, k), n)) >= NewerRecords(L, k)
        BY <2>2 DEF Whole
      <3> QED
        BY <3>3, <3>4, <3>5
    <2> QED
      BY <1>1, <2>1, <2>2
  <1> HIDE DEF K
  <1> QED
    BY <1>1, <1>2, <1>3 DEF Whole, K

(* Files with more records than the window are enough for the map, which   *)
(* holds no more entries than that.                                        *)
LEMMA WholeSince ==
    ASSUME NEW w \in Nat, NEW L \in Seq(LogFiles), NEW M \in Seq(Entries), NEW c \in 0..Len(L),
           Whole(M, L, w), c = 0 \/ NewerRecords(L, c) > w
    PROVE  Whole(M, Since(L, c), w)
  <1> DEFINE K == Since(L, c)
             N == Len(L)
  <1>1. /\ N \in Nat /\ c \in 0..N /\ K \in Seq(LogFiles) /\ Len(K) = N - c
        /\ \A i \in 1..N - c : K[i] = L[c + i]
    <2>1. N \in Nat /\ c \in 0..N
      OBVIOUS
    <2>2. /\ Since(L, c) \in Seq(LogFiles) /\ Len(Since(L, c)) = Len(L) - c
          /\ \A i \in 1..Len(L) - c : Since(L, c)[i] = L[c + i]
      BY SinceTyped
    <2> QED
      BY <2>1, <2>2
  <1>2. \A k \in 0..N - c : c + k \in 0..N /\ Since(K, k) = Since(L, c + k)
    BY <1>1, SinceSince
  <1> HIDE DEF K, N
  <1>3. ASSUME NEW k \in 0..N - c, NEW n \in 1..w
        PROVE  \/ Len(Replay(Since(K, k), n)) >= n
               \/ Len(Replay(Since(K, k), n)) >= NewerRecords(K, k)
    <2> DEFINE l == Len(Replay(Since(L, c + k), n))
    <2>0. c + k \in 0..N /\ Since(K, k) = Since(L, c + k)
      BY <1>2
    <2>1. l >= n \/ l >= NewerRecords(L, c + k)
      BY <2>0 DEF Whole, N
    <2>2. NewerRecords(K, k) <= NewerRecords(L, c + k)
      <3>1. /\ c + k \in 0..Len(L) /\ k \in 0..Len(K) /\ Len(L) - (c + k) = Len(K) - k
            /\ \A p \in 1..Len(L) - (c + k) : K[k + p] = L[c + k + p]
        <4>1. Len(L) = N /\ Len(K) = N - c
          BY <1>1 DEF N
        <4>2. c + k \in 0..N /\ k \in 0..N - c /\ N - (c + k) = (N - c) - k
          BY <1>1, <2>0
        <4>3. ASSUME NEW p \in 1..N - (c + k) PROVE K[k + p] = L[c + k + p]
          <5>1. k + p \in 1..N - c /\ c + (k + p) = c + k + p
            BY <1>1, <2>0
          <5> QED
            BY <1>1, <5>1
        <4> QED
          BY <4>1, <4>2, <4>3
      <3>2. \A p \in 1..Len(L) - (c + k) : L[c + k + p].count \in Nat
        <4>1. \A p \in 1..Len(L) - (c + k) : c + k + p \in 1..Len(L)
          BY <3>1
        <4> QED
          BY <4>1 DEF LogFiles
      <3>3. NewerRecords(K, k) <= NewerRecords(L, c + k) + 0
        <4>1. ASSUME NEW p \in 1..Len(L) - (c + k)
              PROVE  K[k + p].count
                        <= L[c + k + p].count + (IF p = Len(L) - (c + k) THEN 0 ELSE 0)
          <5>1. K[k + p] = L[c + k + p] /\ L[c + k + p].count \in Nat
            BY <3>1, <3>2
          <5> QED
            BY <5>1
        <4> QED
          BY <1>1, <3>1, <4>1, NewerBound
      <3>4. NewerRecords(L, c + k) \in Nat
        BY <3>1, NewerTyped
      <3> QED
        BY <3>3, <3>4
    <2>3. l \in Nat
      <3>1. Since(L, c + k) \in Seq(LogFiles) /\ n \in Nat
        BY <2>0, SinceTyped DEF N
      <3>2. Replay(Since(L, c + k), n) \in Seq(Entries)
        BY <3>1, ReplayTyped DEF Maps
      <3> QED
        BY <3>2
    <2>4. NewerRecords(K, k) \in Nat /\ NewerRecords(L, c + k) \in Nat
      BY <1>1, <2>0, NewerTyped DEF N
    <2> HIDE DEF l
    <2>5. l >= n \/ l >= NewerRecords(K, k)
      BY <2>1, <2>2, <2>3, <2>4
    <2> QED
      BY <2>0, <2>5 DEF l
  <1>4. ASSUME NEW n \in 1..w
        PROVE  Len(Replay(K, n)) >= n \/ Len(Replay(K, n)) >= Len(M)
    <2>1. CASE c = 0
      <3>1. K = L
        BY <2>1, SinceStart DEF K
      <3> QED
        BY <3>1 DEF Whole
    <2>2. CASE NewerRecords(L, c) > w
      <3>1. Len(Replay(K, n)) >= n \/ Len(Replay(K, n)) >= NewerRecords(L, c)
        BY <1>1 DEF Whole, K, N
      <3>2. NewerRecords(L, c) \in Nat
        BY NewerTyped
      <3>3. Len(Replay(K, n)) \in Nat
        BY <1>1, ReplayTyped DEF Maps
      <3> QED
        BY <2>2, <3>1, <3>2, <3>3
    <2> QED
      BY <2>1, <2>2
  <1> QED
    BY <1>1, <1>3, <1>4 DEF Whole, K

LEMMA CountsRotate ==
    ASSUME NEW L \in Seq(LogFiles), Counts(L)
    PROVE  Counts(Append(L, NewLog))
  <1>1. NewLog \in LogFiles /\ NewLog.torn = NotTorn /\ NewLog.count = Len(NewLog.records)
    BY NewLogTyped DEF NewLog
  <1>2. /\ Len(Append(L, NewLog)) = Len(L) + 1 /\ Append(L, NewLog)[Len(L) + 1] = NewLog
        /\ \A i \in 1..Len(L) : Append(L, NewLog)[i] = L[i]
    BY <1>1
  <1> QED
    BY <1>1, <1>2 DEF Counts

LEMMA CountsSince ==
    ASSUME NEW L \in Seq(LogFiles), NEW c \in 0..Len(L), Counts(L)
    PROVE  Counts(Since(L, c))
  <1>1. /\ Len(Since(L, c)) = Len(L) - c
        /\ \A i \in 1..Len(L) - c : Since(L, c)[i] = L[c + i]
    BY SinceTyped
  <1>2. \A i \in 1..Len(L) - c : c + i \in 1..Len(L)
    OBVIOUS
  <1> QED
    BY <1>1, <1>2 DEF Counts

(***************************************************************************)
(* rotateAndDropIfNeeded keeps all this.                                   *)
(***************************************************************************)
Files(L, w) == L \in Seq(LogFiles) /\ (w # 0 => L # <<>>)

LEMMA RotateFiles ==
    ASSUME NEW w \in Nat, NEW L \in Seq(LogFiles)
    PROVE  Files(rotateAndDropIfNeeded(L, w), w)
  <1> DEFINE Q == rotateAndDropIfNeeded(L, w)
  <1>1. PICK B \in {L, rotate(L, w)} :
               /\ L = <<>> => B = rotate(L, w)
               /\ \E c \in 0..Len(B) : Q = Since(B, c) /\ (c = 0 \/ NewerRecords(B, c) > w)
    BY RotateShape
  <1>2. B \in Seq(LogFiles) /\ (w # 0 => B # <<>>)
    <2>1. Append(L, NewLog) \in Seq(LogFiles) /\ Append(L, NewLog) # <<>>
      BY NewLogTyped, AppendProperties
    <2> QED
      BY <1>1, <2>1 DEF rotate
  <1>3. PICK c \in 0..Len(B) : Q = Since(B, c) /\ (c = 0 \/ NewerRecords(B, c) > w)
    BY <1>1
  <1>4. Q \in Seq(LogFiles) /\ Len(Q) = Len(B) - c
    BY <1>2, <1>3, SinceTyped
  <1>5. w # 0 => c # Len(B)
    <2>1. c = Len(B) => NewerRecords(B, c) = 0
      BY <1>2, NewerTyped
    <2> QED
      BY <1>2, <1>3, <2>1
  <1> HIDE DEF Q
  <1>6. w # 0 => Q # <<>>
    BY <1>2, <1>4, <1>5
  <1> QED
    BY <1>4, <1>6 DEF Files, Q

LEMMA RotateKeeps ==
    ASSUME NEW w \in Nat, NEW L \in Seq(LogFiles), NEW M \in Seq(Entries), Sound(M, L, w)
    PROVE  /\ Sound(M, rotateAndDropIfNeeded(L, w), w)
           /\ Whole(M, L, w) => Whole(M, rotateAndDropIfNeeded(L, w), w)
           /\ Counts(L) => Counts(rotateAndDropIfNeeded(L, w))
  <1> DEFINE Q == rotateAndDropIfNeeded(L, w)
             A == Append(L, NewLog)
  <1>1. PICK B \in {L, rotate(L, w)} :
               /\ L = <<>> => B = rotate(L, w)
               /\ \E c \in 0..Len(B) : Q = Since(B, c) /\ (c = 0 \/ NewerRecords(B, c) > w)
    BY RotateShape
  <1>2. B = L \/ B = A
    BY <1>1 DEF rotate
  <1>3. A \in Seq(LogFiles)
    BY NewLogTyped
  <1>4. Sound(M, A, w) /\ (Whole(M, L, w) => Whole(M, A, w)) /\ (Counts(L) => Counts(A))
    BY SoundRotate, WholeRotate, CountsRotate
  <1> HIDE DEF A
  <1>5. /\ B \in Seq(LogFiles) /\ Sound(M, B, w) /\ (Whole(M, L, w) => Whole(M, B, w))
        /\ (Counts(L) => Counts(B))
    BY <1>2, <1>3, <1>4
  <1>6. PICK c \in 0..Len(B) : Q = Since(B, c) /\ (c = 0 \/ NewerRecords(B, c) > w)
    BY <1>1
  <1>7. Sound(M, Since(B, c), w)
    BY <1>5, SoundSince
  <1>8. Whole(M, B, w) => Whole(M, Since(B, c), w)
    BY <1>5, <1>6, WholeSince
  <1>9. Counts(B) => Counts(Since(B, c))
    BY <1>5, CountsSince
  <1> QED
    BY <1>5, <1>6, <1>7, <1>8, <1>9

(***************************************************************************)
(* Writing a record                                                        *)
(***************************************************************************)
Writable(L) == L \in Seq(LogFiles) /\ L # <<>> /\ L[Len(L)].torn = NotTorn

LEMMA WriteKeepsWritable ==
    ASSUME NEW L, Writable(L), NEW r \in Records
    PROVE  /\ Writable(writeRecord(L, r))
           /\ Len(writeRecord(L, r)) = Len(L)
           /\ Counts(L) => Counts(writeRecord(L, r))
  <1> DEFINE w == writeRecord(L, r)
  <1>0. L \in Seq(LogFiles) /\ L # <<>> /\ L[Len(L)].torn = NotTorn /\ Len(L) \in 1..Len(L)
    BY DEF Writable
  <1>1. /\ w \in Seq(LogFiles) /\ Len(w) = Len(L)
        /\ \A i \in 1..Len(L) : w[i] = IF i = Len(L) THEN WithRecord(L[i], r) ELSE L[i]
    BY <1>0, WriteTyped
  <1> HIDE DEF w
  <1>2. L[Len(L)] \in LogFiles
    BY <1>0
  <1>3. w[Len(L)] = WithRecord(L[Len(L)], r)
    BY <1>0, <1>1
  <1>4. /\ w[Len(L)].torn = NotTorn /\ w[Len(L)].count = L[Len(L)].count + 1
        /\ w[Len(L)].records = Append(L[Len(L)].records, r)
    BY <1>0, <1>2, <1>3, WithRecordTyped
  <1>5. Writable(w)
    BY <1>0, <1>1, <1>4 DEF Writable
  <1>6. ASSUME Counts(L) PROVE Counts(w)
    <2>1. L[Len(L)].records \in Seq(Records)
      BY <1>2 DEF LogFiles
    <2>2. L[Len(L)].count = Len(L[Len(L)].records)
      <3>1. Len(L[Len(L)].records) # NotTorn
        BY <2>1 DEF NotTorn
      <3> QED
        BY <1>0, <1>6, <3>1 DEF Counts
    <2>3. w[Len(L)].count = Len(w[Len(L)].records)
      BY <1>4, <2>1, <2>2
    <2>4. ASSUME NEW i \in 1..Len(w)
          PROVE  \/ w[i].torn = NotTorn /\ w[i].count = Len(w[i].records)
                 \/ w[i].torn = Len(w[i].records) /\ w[i].count <= Len(w[i].records)
      <3>1. CASE i = Len(L)
        BY <1>4, <2>3, <3>1
      <3>2. CASE i # Len(L)
        <4>1. w[i] = L[i] /\ i \in 1..Len(L)
          BY <1>1, <3>2
        <4> QED
          BY <1>6, <4>1 DEF Counts
      <3> QED
        BY <3>1, <3>2
    <2> QED
      BY <2>4 DEF Counts
  <1> QED
    BY <1>1, <1>5, <1>6 DEF w

LEMMA WriteReplays ==
    ASSUME NEW w \in Nat, NEW L, Writable(L), NEW r \in Records,
           NEW k \in 0..Len(L), NEW n \in 1..w
    PROVE  /\ Replay(Since(L, k), n) \in Maps(n)
           /\ Replay(Since(writeRecord(L, r), k), n)
                 = IF k = Len(L) THEN <<>> ELSE readRecord(Replay(Since(L, k), n), r, n)
  <1>0. L \in Seq(LogFiles) /\ L # <<>> /\ L[Len(L)].torn = NotTorn /\ Len(L) \in Nat /\ n \in Nat
    BY DEF Writable
  <1>1. /\ Since(L, k) \in Seq(LogFiles) /\ Len(Since(L, k)) = Len(L) - k
        /\ \A i \in 1..Len(L) - k : Since(L, k)[i] = L[k + i]
    BY <1>0, SinceTyped
  <1>2. Replay(Since(L, k), n) \in Maps(n)
    BY <1>0, <1>1, ReplayTyped
  <1>3. CASE k = Len(L)
    <2>1. writeRecord(L, r) \in Seq(LogFiles) /\ Len(writeRecord(L, r)) = Len(L)
      BY <1>0, WriteTyped
    <2>2. Since(writeRecord(L, r), k) = <<>>
      BY <1>3, <2>1, SinceEnd
    <2> QED
      BY <1>0, <1>2, <1>3, <2>2, ReplayEmpty
  <1>4. CASE k # Len(L)
    <2> DEFINE a == Since(L, k)
    <2>1. k \in 0..Len(L) - 1
      BY <1>0, <1>4
    <2>2. Since(writeRecord(L, r), k) = writeRecord(a, r)
      BY <1>0, <2>1, SinceWrite
    <2>3. Len(a) = Len(L) - k /\ Len(a) \in 1..Len(L) - k /\ k + Len(a) = Len(L)
      BY <1>0, <1>1, <2>1
    <2>4. a[Len(a)] = L[Len(L)]
      BY <1>1, <2>3
    <2>5. a \in Seq(LogFiles) /\ a # <<>> /\ a[Len(a)].torn = NotTorn
      BY <1>0, <1>1, <2>3, <2>4
    <2> HIDE DEF a
    <2>6. Replay(writeRecord(a, r), n) = readRecord(Replay(a, n), r, n)
      BY <1>0, <2>5, ReplayWrite
    <2> QED
      BY <1>2, <1>4, <2>2, <2>6 DEF a
  <1> QED
    BY <1>3, <1>4

LEMMA AddRecordTyped ==
    ASSUME NEW e \in Entries, NEW o \in {"ADD", "DROP"}
    PROVE  /\ LogRecord(o, e) \in Records /\ LogRecord(o, e).op = o /\ LogRecord(o, e).id = e.id
           /\ [id |-> LogRecord(o, e).id, part |-> LogRecord(o, e).part] = e
  BY DEF LogRecord, Records, Entries

(* An entry whose id is not in the map is added to the map and, by what is *)
(* written, to all that restarts may find.                                 *)
LEMMA AddKeeps ==
    ASSUME NEW w \in Nat, w # 0, NEW L, Writable(L), NEW M \in Maps(w), Sound(M, L, w),
           NEW e \in Entries, ~mapContains(M, e.id)
    PROVE  Sound(insertEntry(M, e, w), writeRecord(L, LogRecord("ADD", e)), w)
  <1> DEFINE r == LogRecord("ADD", e)
             K == writeRecord(L, r)
             G(k, n) == Replay(Since(K, k), n)
             H(k, n) == Replay(Since(L, k), n)
  <1>0. L \in Seq(LogFiles) /\ Len(L) \in Nat /\ M \in Seq(Entries)
    BY DEF Writable, Maps
  <1>1. r \in Records /\ r.op = "ADD" /\ [id |-> r.id, part |-> r.part] = e
    BY AddRecordTyped
  <1>2. Len(K) = Len(L)
    BY <1>1, WriteKeepsWritable
  <1>3. ASSUME NEW k \in 0..Len(L), NEW n \in 1..w
        PROVE  /\ H(k, n) \in Maps(n) /\ H(k, n) \in Seq(Entries) /\ EndsWith(H(k, n), M)
               /\ G(k, n) = IF k = Len(L) THEN <<>> ELSE insertEntry(H(k, n), e, n)
    <2>1. /\ H(k, n) \in Maps(n)
          /\ G(k, n) = IF k = Len(L) THEN <<>> ELSE readRecord(H(k, n), r, n)
      BY <1>1, WriteReplays
    <2>2. readRecord(H(k, n), r, n) = insertEntry(H(k, n), e, n)
      BY <1>1 DEF readRecord
    <2>3. EndsWith(H(k, n), M)
      BY DEF Sound
    <2> QED
      BY <2>1, <2>2, <2>3 DEF Maps
  <1>4. insertEntry(M, e, w) \in Seq(Entries)
    BY InsertTyped DEF Maps
  <1>5. \A k, j \in 0..Len(L), n, p \in 1..w : k >= j /\ n <= p => EndsWith(H(k, n), H(j, p))
    BY DEF Sound
  <1> HIDE DEF r, K, G, H
  <1>6. ASSUME NEW k \in 0..Len(L), NEW n \in 1..w
        PROVE  G(k, n) \in Seq(Entries) /\ EndsWith(G(k, n), insertEntry(M, e, w))
    <2>1. CASE k = Len(L)
      <3>1. G(k, n) = <<>>
        BY <1>3, <2>1
      <3> QED
        BY <1>4, <3>1, EndsEmpty
    <2>2. CASE k # Len(L)
      <3>0. n \in Nat /\ n # 0 /\ n <= w
        OBVIOUS
      <3>1. G(k, n) = insertEntry(H(k, n), e, n) /\ H(k, n) \in Maps(n) /\ EndsWith(H(k, n), M)
        BY <1>3, <2>2
      <3>2. EndsWith(insertEntry(H(k, n), e, n), insertEntry(M, e, w))
        BY <3>0, <3>1, EndsInsert
      <3>3. insertEntry(H(k, n), e, n) \in Seq(Entries)
        BY <3>0, <3>1, InsertTyped DEF Maps
      <3> QED
        BY <3>1, <3>2, <3>3
    <2> QED
      BY <2>1, <2>2
  <1>7. ASSUME NEW k \in 0..Len(L), NEW j \in 0..Len(L), NEW n \in 1..w, NEW p \in 1..w,
               k >= j, n <= p
        PROVE  EndsWith(G(k, n), G(j, p))
    <2>1. CASE k = Len(L)
      <3>1. G(k, n) = <<>> /\ G(j, p) \in Seq(Entries)
        BY <1>3, <1>6, <2>1
      <3> QED
        BY <3>1, EndsEmpty
    <2>2. CASE k # Len(L)
      <3>0. n \in Nat /\ n # 0 /\ p \in Nat /\ p # 0 /\ j # Len(L)
        BY <1>0, <1>7, <2>2
      <3>1. /\ G(k, n) = insertEntry(H(k, n), e, n) /\ H(k, n) \in Maps(n)
            /\ G(j, p) = insertEntry(H(j, p), e, p) /\ H(j, p) \in Maps(p)
            /\ H(j, p) \in Seq(Entries) /\ EndsWith(H(j, p), M)
        BY <1>3, <2>2, <3>0
      <3>2. ~mapContains(H(j, p), e.id)
        BY <1>0, <3>1, EndsContains
      <3>3. EndsWith(H(k, n), H(j, p))
        BY <1>5, <1>7
      <3>4. EndsWith(insertEntry(H(k, n), e, n), insertEntry(H(j, p), e, p))
        BY <1>7, <3>0, <3>1, <3>2, <3>3, EndsInsert
      <3> QED
        BY <3>1, <3>4
    <2> QED
      BY <2>1, <2>2
  <1> QED
    BY <1>2, <1>6, <1>7 DEF Sound, G, K, r

LEMMA WriteNewer ==
    ASSUME NEW L, Writable(L), NEW r \in Records, NEW k \in 0..Len(L)
    PROVE  /\ NewerRecords(L, k) \in Nat
           /\ NewerRecords(writeRecord(L, r), k)
                 <= IF k = Len(L) THEN 0 ELSE NewerRecords(L, k) + 1
  <1> DEFINE K == writeRecord(L, r)
  <1>0. L \in Seq(LogFiles) /\ L # <<>> /\ Len(L) \in Nat
    BY DEF Writable
  <1>1. /\ K \in Seq(LogFiles) /\ Len(K) = Len(L)
        /\ \A i \in 1..Len(L) : K[i] = IF i = Len(L) THEN WithRecord(L[i], r) ELSE L[i]
    BY <1>0, WriteTyped
  <1> HIDE DEF K
  <1>2. NewerRecords(L, k) \in Nat
    BY <1>0, NewerTyped
  <1>3. CASE k = Len(L)
    <2>1. NewerRecords(K, k) = 0
      BY <1>1, <1>3, NewerTyped
    <2> QED
      BY <1>2, <1>3, <2>1 DEF K
  <1>4. CASE k # Len(L)
    <2>1. ASSUME NEW p \in 1..Len(L) - k
          PROVE  K[k + p].count <= L[k + p].count + (IF p = Len(L) - k THEN 1 ELSE 0)
      <3>1. k + p \in 1..Len(L) /\ (k + p = Len(L) <=> p = Len(L) - k)
        BY <1>0
      <3>2. L[k + p] \in LogFiles /\ L[k + p].count \in Nat
        BY <1>0, <3>1 DEF LogFiles
      <3>3. K[k + p] = IF k + p = Len(L) THEN WithRecord(L[k + p], r) ELSE L[k + p]
        BY <1>1, <3>1
      <3>4. WithRecord(L[k + p], r).count = L[k + p].count + 1
        BY <3>2, WithRecordTyped
      <3> QED
        BY <3>1, <3>2, <3>3, <3>4
    <2>2. NewerRecords(K, k) <= NewerRecords(L, k) + 1
      <3>1. k \in 0..Len(K) /\ Len(L) - k = Len(K) - k /\ 1 \in Nat
        BY <1>1
      <3> QED
        BY <1>0, <1>1, <2>1, <3>1, NewerBound
    <2> QED
      BY <1>2, <1>4, <2>2 DEF K
  <1> QED
    BY <1>3, <1>4

LEMMA AddWhole ==
    ASSUME NEW w \in Nat, w # 0, NEW L, Writable(L), NEW M \in Maps(w), Sound(M, L, w),
           Whole(M, L, w), NEW e \in Entries, ~mapContains(M, e.id)
    PROVE  Whole(insertEntry(M, e, w), writeRecord(L, LogRecord("ADD", e)), w)
  <1> DEFINE r == LogRecord("ADD", e)
             K == writeRecord(L, r)
             G(k, n) == Replay(Since(K, k), n)
             H(k, n) == Replay(Since(L, k), n)
  <1>0. L \in Seq(LogFiles) /\ Len(L) \in Nat /\ L # <<>> /\ M \in Seq(Entries)
    BY DEF Writable, Maps
  <1>1. r \in Records /\ r.op = "ADD" /\ [id |-> r.id, part |-> r.part] = e
    BY AddRecordTyped
  <1>2. Len(K) = Len(L) /\ K \in Seq(LogFiles)
    BY <1>1, WriteKeepsWritable DEF Writable
  <1>3. ASSUME NEW k \in 0..Len(L), NEW n \in 1..w
        PROVE  /\ Len(H(k, n)) \in Nat
               /\ Len(G(k, n)) = IF k = Len(L) THEN 0
                                 ELSE IF Len(H(k, n)) = n THEN n ELSE Len(H(k, n)) + 1
    <2>1. /\ H(k, n) \in Maps(n)
          /\ G(k, n) = IF k = Len(L) THEN <<>> ELSE readRecord(H(k, n), r, n)
      BY <1>1, WriteReplays
    <2>2. readRecord(H(k, n), r, n) = insertEntry(H(k, n), e, n)
      BY <1>1 DEF readRecord
    <2>3. EndsWith(H(k, n), M)
      BY DEF Sound
    <2> HIDE DEF G, H
    <2>4. H(k, n) \in Seq(Entries)
      BY <2>1 DEF Maps
    <2>5. ~mapContains(H(k, n), e.id)
      BY <1>0, <2>3, <2>4, EndsContains
    <2>6. n \in Nat /\ n # 0
      OBVIOUS
    <2>7. Len(insertEntry(H(k, n), e, n)) = IF Len(H(k, n)) = n THEN n ELSE Len(H(k, n)) + 1
      BY <2>1, <2>5, <2>6, InsertNew
    <2> QED
      BY <2>1, <2>2, <2>4, <2>7
  <1>4. ASSUME NEW k \in 0..Len(L)
        PROVE  /\ NewerRecords(L, k) \in Nat /\ NewerRecords(K, k) \in Nat
               /\ NewerRecords(K, k) <= IF k = Len(L) THEN 0 ELSE NewerRecords(L, k) + 1
    <2>1. NewerRecords(K, k) \in Nat
      BY <1>2, NewerTyped
    <2> QED
      BY <1>1, <2>1, WriteNewer
  <1>5. \A k \in 0..Len(L), n \in 1..w : Len(H(k, n)) >= n \/ Len(H(k, n)) >= NewerRecords(L, k)
    BY DEF Whole
  <1>6. \A n \in 1..w : Len(H(0, n)) >= n \/ Len(H(0, n)) >= Len(M)
    BY <1>0, SinceStart DEF Whole
  <1>7. \A n \in 1..w : Replay(K, n) = G(0, n)
    BY <1>2, SinceStart
  <1> HIDE DEF r, K, G, H
  <1>8. ASSUME NEW k \in 0..Len(L), NEW n \in 1..w
        PROVE  Len(G(k, n)) >= n \/ Len(G(k, n)) >= NewerRecords(K, k)
    <2> DEFINE h == Len(H(k, n))
               g == Len(G(k, n))
               a == NewerRecords(L, k)
               b == NewerRecords(K, k)
    <2>1. /\ h \in Nat /\ a \in Nat /\ b \in Nat /\ (h >= n \/ h >= a)
          /\ g = (IF k = Len(L) THEN 0 ELSE IF h = n THEN n ELSE h + 1)
          /\ b <= (IF k = Len(L) THEN 0 ELSE a + 1)
      BY <1>3, <1>4, <1>5
    <2> HIDE DEF h, g, a, b
    <2>2. g >= n \/ g >= b
      BY <2>1
    <2> QED
      BY <2>2 DEF g, b
  <1>9. ASSUME NEW n \in 1..w
        PROVE  Len(Replay(K, n)) >= n \/ Len(Replay(K, n)) >= Len(insertEntry(M, e, w))
    <2> DEFINE h == Len(H(0, n))
               g == Len(G(0, n))
               m == Len(M)
    <2>1. 0 \in 0..Len(L) /\ 0 # Len(L)
      BY <1>0
    <2>2. /\ h \in Nat /\ m \in Nat /\ (h >= n \/ h >= m)
          /\ g = (IF h = n THEN n ELSE h + 1)
      BY <1>0, <1>3, <1>6, <2>1
    <2>3. Len(insertEntry(M, e, w)) = IF m = w THEN w ELSE m + 1
      BY InsertNew
    <2> HIDE DEF h, g, m
    <2>4. g >= n \/ g >= (IF m = w THEN w ELSE m + 1)
      BY <2>2
    <2> QED
      BY <1>7, <2>3, <2>4 DEF g
  <1> QED
    BY <1>2, <1>8, <1>9 DEF Whole, K, G, r

(* So is an entry that is removed.                                         *)
LEMMA DropKeeps ==
    ASSUME NEW w \in Nat, w # 0, NEW L, Writable(L), NEW M \in Maps(w), Sound(M, L, w),
           NEW e \in Entries
    PROVE  Sound(erase(M, e.id), writeRecord(L, LogRecord("DROP", e)), w)
  <1> DEFINE r == LogRecord("DROP", e)
             K == writeRecord(L, r)
             G(k, n) == Replay(Since(K, k), n)
             H(k, n) == Replay(Since(L, k), n)
  <1>0. L \in Seq(LogFiles) /\ Len(L) \in Nat /\ M \in Seq(Entries)
    BY DEF Writable, Maps
  <1>1. r \in Records /\ r.op = "DROP" /\ r.id = e.id
    BY AddRecordTyped
  <1>2. Len(K) = Len(L)
    BY <1>1, WriteKeepsWritable
  <1>3. ASSUME NEW k \in 0..Len(L), NEW n \in 1..w
        PROVE  /\ H(k, n) \in Maps(n) /\ EndsWith(H(k, n), M)
               /\ G(k, n) = IF k = Len(L) THEN <<>> ELSE erase(H(k, n), e.id)
    <2>1. /\ H(k, n) \in Maps(n)
          /\ G(k, n) = IF k = Len(L) THEN <<>> ELSE readRecord(H(k, n), r, n)
      BY <1>1, WriteReplays
    <2>2. readRecord(H(k, n), r, n) = erase(H(k, n), e.id)
      BY <1>1 DEF readRecord
    <2>3. EndsWith(H(k, n), M)
      BY DEF Sound
    <2> QED
      BY <2>1, <2>2, <2>3
  <1>4. erase(M, e.id) \in Seq(Entries)
    BY EraseTyped DEF Maps
  <1>5. \A k, j \in 0..Len(L), n, p \in 1..w : k >= j /\ n <= p => EndsWith(H(k, n), H(j, p))
    BY DEF Sound
  <1> HIDE DEF r, K, G, H
  <1>6. ASSUME NEW k \in 0..Len(L), NEW n \in 1..w
        PROVE  G(k, n) \in Seq(Entries) /\ EndsWith(G(k, n), erase(M, e.id))
    <2>1. CASE k = Len(L)
      <3>1. G(k, n) = <<>>
        BY <1>3, <2>1
      <3> QED
        BY <1>4, <3>1, EndsEmpty
    <2>2. CASE k # Len(L)
      <3>0. n \in Nat
        OBVIOUS
      <3>1. G(k, n) = erase(H(k, n), e.id) /\ H(k, n) \in Maps(n) /\ EndsWith(H(k, n), M)
        BY <1>3, <2>2
      <3>2. EndsWith(erase(H(k, n), e.id), erase(M, e.id))
        BY <3>0, <3>1, EndsErase
      <3>3. erase(H(k, n), e.id) \in Seq(Entries)
        BY <3>0, <3>1, EraseTyped DEF Maps
      <3> QED
        BY <3>1, <3>2, <3>3
    <2> QED
      BY <2>1, <2>2
  <1>7. ASSUME NEW k \in 0..Len(L), NEW j \in 0..Len(L), NEW n \in 1..w, NEW p \in 1..w,
               k >= j, n <= p
        PROVE  EndsWith(G(k, n), G(j, p))
    <2>1. CASE k = Len(L)
      <3>1. G(k, n) = <<>> /\ G(j, p) \in Seq(Entries)
        BY <1>3, <1>6, <2>1
      <3> QED
        BY <3>1, EndsEmpty
    <2>2. CASE k # Len(L)
      <3>0. n \in Nat /\ p \in Nat /\ j # Len(L)
        BY <1>0, <1>7, <2>2
      <3>1. /\ G(k, n) = erase(H(k, n), e.id) /\ H(k, n) \in Maps(n)
            /\ G(j, p) = erase(H(j, p), e.id) /\ H(j, p) \in Maps(p)
        BY <1>3, <2>2, <3>0
      <3>2. EndsWith(H(k, n), H(j, p))
        BY <1>5, <1>7
      <3>3. EndsWith(erase(H(k, n), e.id), erase(H(j, p), e.id))
        BY <3>0, <3>1, <3>2, EndsErase
      <3> QED
        BY <3>1, <3>3
    <2> QED
      BY <2>1, <2>2
  <1> QED
    BY <1>2, <1>6, <1>7 DEF Sound, G, K, r

(***************************************************************************)
(* Smaller windows, files marked as torn, counts read again, and restarts  *)
(***************************************************************************)
LEMMA SetMaxSize ==
    ASSUME NEW w \in Nat, NEW v \in Nat, NEW M \in Maps(w)
    PROVE  /\ setMaxSize(M, v) \in Maps(v)
           /\ EndsWith(setMaxSize(M, v), M)
           /\ Len(setMaxSize(M, v)) = IF Len(M) > v THEN v ELSE Len(M)
  <1>0. M \in Seq(Entries) /\ Len(M) \in Nat /\ Different(M)
    BY DEF Maps
  <1>1. CASE Len(M) > v
    <2> DEFINE s == SubSeq(M, Len(M) - v + 1, Len(M))
    <2>1. setMaxSize(M, v) = s
      BY <1>1 DEF setMaxSize
    <2>2. /\ s \in Seq(Entries) /\ Len(s) = v
          /\ \A i \in 1..v : s[i] = M[Len(M) - v + i]
      <3> DEFINE a == Len(M) - v + 1
                 b == Len(M)
      <3>1. a \in Int /\ b \in Int /\ \A i \in a..b : M[i] \in Entries
        BY <1>0, <1>1
      <3> HIDE DEF a, b
      <3>2. /\ SubSeq(M, a, b) \in Seq(Entries)
            /\ Len(SubSeq(M, a, b)) = IF a <= b THEN b - a + 1 ELSE 0
            /\ \A i \in 1..b - a + 1 : SubSeq(M, a, b)[i] = M[a + i - 1]
        BY <3>1, SubSeqProperties
      <3>3. /\ (IF a <= b THEN b - a + 1 ELSE 0) = v /\ b - a + 1 = v
            /\ \A i \in 1..v : a + i - 1 = Len(M) - v + i
        BY <1>0, <1>1 DEF a, b
      <3>4. s = SubSeq(M, a, b)
        BY DEF a, b
      <3> HIDE DEF s
      <3> QED
        BY <3>2, <3>3, <3>4
    <2> HIDE DEF s
    <2>3. ASSUME NEW i \in 1..Len(s), NEW j \in 1..Len(s) PROVE i = j \/ s[i].id # s[j].id
      <3>1. /\ Len(M) - v + i \in 1..Len(M) /\ Len(M) - v + j \in 1..Len(M)
            /\ (Len(M) - v + i = Len(M) - v + j => i = j)
        BY <1>0, <1>1, <2>2
      <3>2. \/ Len(M) - v + i = Len(M) - v + j
            \/ M[Len(M) - v + i].id # M[Len(M) - v + j].id
        BY <1>0, <3>1 DEF Different
      <3> QED
        BY <2>2, <3>1, <3>2
    <2>4. s \in Maps(v)
      BY <2>2, <2>3 DEF Maps, Different
    <2>5. EndsWith(s, M)
      BY <1>0, <1>1, <2>2 DEF EndsWith
    <2> QED
      BY <1>1, <2>1, <2>2, <2>4, <2>5
  <1>2. CASE ~(Len(M) > v)
    <2>1. setMaxSize(M, v) = M
      BY <1>2 DEF setMaxSize
    <2>2. M \in Maps(v)
      BY <1>0, <1>2 DEF Maps
    <2> QED
      BY <1>0, <1>2, <2>1, <2>2, EndsItself
  <1> QED
    BY <1>1, <1>2

LEMMA ShrinkKeeps ==
    ASSUME NEW w \in Nat, NEW v \in Nat, v <= w, NEW L \in Seq(LogFiles), NEW M \in Maps(w),
           Sound(M, L, w)
    PROVE  /\ Sound(setMaxSize(M, v), L, v)
           /\ Whole(M, L, w) => Whole(setMaxSize(M, v), L, v)
  <1> DEFINE T == setMaxSize(M, v)
             H(k, n) == Replay(Since(L, k), n)
  <1>0. M \in Seq(Entries) /\ Len(M) \in Nat /\ \A n \in 1..v : n \in 1..w /\ n <= v /\ n \in Nat
    BY DEF Maps
  <1>1. /\ T \in Seq(Entries) /\ EndsWith(T, M)
        /\ Len(T) = IF Len(M) > v THEN v ELSE Len(M)
    BY SetMaxSize DEF Maps
  <1>2. ASSUME NEW k \in 0..Len(L), NEW n \in 1..v
        PROVE  H(k, n) \in Seq(Entries) /\ Len(H(k, n)) <= v /\ EndsWith(H(k, n), M)
    <2>1. Since(L, k) \in Seq(LogFiles)
      BY SinceTyped
    <2>2. H(k, n) \in Maps(n)
      BY <1>0, <2>1, ReplayTyped
    <2>3. H(k, n) \in Seq(Entries) /\ Len(H(k, n)) \in Nat /\ Len(H(k, n)) <= n
      BY <2>2 DEF Maps
    <2>4. Len(H(k, n)) <= v
      <3>1. n <= v /\ n \in Nat
        BY <1>0
      <3> QED
        BY <2>3, <3>1
    <2> QED
      BY <1>0, <2>3, <2>4 DEF Sound
  <1> HIDE DEF T
  <1>3. ASSUME NEW k \in 0..Len(L), NEW n \in 1..v PROVE EndsWith(H(k, n), T)
    <2> DEFINE h == H(k, n)
    <2> HIDE DEF H
    <2>1. h \in Seq(Entries) /\ Len(h) <= v /\ EndsWith(h, M)
      BY <1>2
    <2> HIDE DEF h
    <2>2. Len(h) <= Len(T)
      BY <1>1, <2>1 DEF EndsWith
    <2>3. EndsWith(h, T)
      BY <1>0, <1>1, <2>1, <2>2, EndsOfOne
    <2> QED
      BY <2>3 DEF h
  <1>4. \A k, j \in 0..Len(L), n, p \in 1..v : k >= j /\ n <= p => EndsWith(H(k, n), H(j, p))
    BY <1>0 DEF Sound
  <1>5. Sound(T, L, v)
    BY <1>3, <1>4 DEF Sound
  <1>6. ASSUME Whole(M, L, w) PROVE Whole(T, L, v)
    <2>1. ASSUME NEW n \in 1..v PROVE Len(Replay(L, n)) >= n \/ Len(Replay(L, n)) >= Len(T)
      <3> DEFINE g == Len(Replay(L, n))
      <3>1. g >= n \/ g >= Len(M)
        BY <1>0, <1>6 DEF Whole
      <3>2. g \in Nat
        BY <1>0, ReplayTyped DEF Maps
      <3> HIDE DEF g
      <3>3. g >= n \/ g >= Len(T)
        BY <1>0, <1>1, <3>1, <3>2
      <3> QED
        BY <3>3 DEF g
    <2> QED
      BY <1>0, <1>6, <2>1 DEF Whole
  <1> QED
    BY <1>5, <1>6 DEF T

(* Only what can be read of the files matters, and that the counts do not  *)
(* grow.                                                                   *)
LEMMA SameKeeps ==
    ASSUME NEW w \in Nat, NEW L \in Seq(LogFiles), NEW K \in Seq(LogFiles), NEW M,
           Len(K) = Len(L), \A i \in 1..Len(L) : Readable(K[i]) = Readable(L[i]),
           Sound(M, L, w)
    PROVE  /\ Sound(M, K, w)
           /\ (\A i \in 1..Len(L) : K[i].count <= L[i].count) /\ Whole(M, L, w) => Whole(M, K, w)
  <1> DEFINE G(k, n) == Replay(Since(K, k), n)
             H(k, n) == Replay(Since(L, k), n)
  <1>1. ASSUME NEW k \in 0..Len(L), NEW n \in 1..w PROVE G(k, n) = H(k, n)
    <2>1. /\ Since(L, k) \in Seq(LogFiles) /\ Len(Since(L, k)) = Len(L) - k
          /\ \A i \in 1..Len(L) - k : Since(L, k)[i] = L[k + i]
      BY SinceTyped
    <2>2. /\ Since(K, k) \in Seq(LogFiles) /\ Len(Since(K, k)) = Len(K) - k
          /\ \A i \in 1..Len(K) - k : Since(K, k)[i] = K[k + i]
      BY SinceTyped
    <2>3. \A i \in 1..Len(L) - k : k + i \in 1..Len(L)
      OBVIOUS
    <2>4. Len(Since(L, k)) = Len(Since(K, k))
      BY <2>1, <2>2
    <2>5. \A i \in 1..Len(Since(L, k)) : Readable(Since(L, k)[i]) = Readable(Since(K, k)[i])
      BY <2>1, <2>2, <2>3
    <2>6. Replay(Since(L, k), n) = Replay(Since(K, k), n)
      BY <2>1, <2>2, <2>4, <2>5, ReplaySame
    <2> QED
      BY <2>6
  <1>2. /\ \A k, j \in 0..Len(L), n, p \in 1..w : k >= j /\ n <= p => EndsWith(H(k, n), H(j, p))
        /\ \A k \in 0..Len(L), n \in 1..w : EndsWith(H(k, n), M)
    BY DEF Sound
  <1>3. Sound(M, K, w)
    <2> HIDE DEF G, H
    <2>1. ASSUME NEW k \in 0..Len(K), NEW j \in 0..Len(K), NEW n \in 1..w, NEW p \in 1..w,
                 k >= j, n <= p
          PROVE  EndsWith(G(k, n), G(j, p))
      <3>1. G(k, n) = H(k, n) /\ G(j, p) = H(j, p)
        BY <1>1
      <3>2. EndsWith(H(k, n), H(j, p))
        BY <1>2, <2>1
      <3> QED
        BY <3>1, <3>2
    <2>2. ASSUME NEW k \in 0..Len(K), NEW n \in 1..w PROVE EndsWith(G(k, n), M)
      <3>1. G(k, n) = H(k, n)
        BY <1>1
      <3>2. EndsWith(H(k, n), M)
        BY <1>2
      <3> QED
        BY <3>1, <3>2
    <2> QED
      BY <2>1, <2>2 DEF Sound, G
  <1>4. ASSUME \A i \in 1..Len(L) : K[i].count <= L[i].count, Whole(M, L, w)
        PROVE  Whole(M, K, w)
    <2>1. ASSUME NEW k \in 0..Len(L)
          PROVE  /\ NewerRecords(K, k) \in Nat /\ NewerRecords(L, k) \in Nat
                 /\ NewerRecords(K, k) <= NewerRecords(L, k)
      <3>1. ASSUME NEW p \in 1..Len(L) - k
            PROVE  K[k + p].count <= L[k + p].count + (IF p = Len(L) - k THEN 0 ELSE 0)
        <4>1. k + p \in 1..Len(L)
          OBVIOUS
        <4>2. K[k + p].count <= L[k + p].count /\ L[k + p].count \in Nat
          BY <1>4, <4>1 DEF LogFiles
        <4> QED
          BY <4>2
      <3>2. k \in 0..Len(K) /\ Len(L) - k = Len(K) - k /\ 0 \in Nat
        OBVIOUS
      <3>3. NewerRecords(K, k) <= NewerRecords(L, k) + 0
        BY <3>1, <3>2, NewerBound
      <3>4. NewerRecords(K, k) \in Nat /\ NewerRecords(L, k) \in Nat
        BY <3>2, NewerTyped
      <3> QED
        BY <3>3, <3>4
    <2>2. \A k \in 0..Len(L), n \in 1..w :
              Len(H(k, n)) >= n \/ Len(H(k, n)) >= NewerRecords(L, k)
      BY <1>4 DEF Whole
    <2>3. ASSUME NEW k \in 0..Len(L), NEW n \in 1..w
          PROVE  Len(G(k, n)) >= n \/ Len(G(k, n)) >= NewerRecords(K, k)
      <3> DEFINE h == Len(H(k, n))
      <3>1. h \in Nat
        <4>1. Since(L, k) \in Seq(LogFiles) /\ n \in Nat
          BY SinceTyped
        <4> QED
          BY <4>1, ReplayTyped DEF Maps
      <3>2. h >= n \/ h >= NewerRecords(L, k)
        BY <2>2
      <3> HIDE DEF h
      <3>3. h >= n \/ h >= NewerRecords(K, k)
        BY <2>1, <3>1, <3>2
      <3> QED
        BY <1>1, <3>3 DEF h
    <2>4. \A n \in 1..w : Replay(K, n) = Replay(L, n)
      BY ReplaySame
    <2> QED
      BY <1>4, <2>3, <2>4 DEF Whole
  <1> QED
    BY <1>3, <1>4

(* What a restart reads is as good as the map was.                         *)
LEMMA RestartKeeps ==
    ASSUME NEW w \in Nat, w # 0, NEW L \in Seq(LogFiles), NEW M \in Seq(Entries), Sound(M, L, w)
    PROVE  /\ Sound(Replay(L, w), L, w)
           /\ Whole(M, L, w) => Whole(Replay(L, w), L, w)
           /\ EndsWith(Replay(L, w), M)
  <1> DEFINE Q == Replay(L, w)
  <1>1. Since(L, 0) = L /\ 0 \in 0..Len(L) /\ w \in 1..w
    BY SinceStart
  <1>2. EndsWith(Replay(Since(L, 0), w), M)
    BY <1>1 DEF Sound
  <1>3. \A k \in 0..Len(L), n \in 1..w : EndsWith(Replay(Since(L, k), n), Replay(Since(L, 0), w))
    BY <1>1 DEF Sound
  <1>4. Sound(Q, L, w)
    BY <1>1, <1>3 DEF Sound
  <1>5. Q \in Seq(Entries)
    BY ReplayTyped DEF Maps
  <1>6. ASSUME Whole(M, L, w) PROVE Whole(Q, L, w)
    <2>1. Len(Q) <= Len(M)
      BY <1>1, <1>2 DEF EndsWith
    <2>2. ASSUME NEW n \in 1..w PROVE Len(Replay(L, n)) >= n \/ Len(Replay(L, n)) >= Len(Q)
      <3>1. Len(Replay(L, n)) >= n \/ Len(Replay(L, n)) >= Len(M)
        BY <1>6 DEF Whole
      <3>2. Len(Replay(L, n)) \in Nat
        BY ReplayTyped DEF Maps
      <3> HIDE DEF Q
      <3> QED
        BY <1>5, <2>1, <3>1, <3>2
    <2> QED
      BY <1>6, <2>2 DEF Whole
  <1> QED
    BY <1>1, <1>2, <1>4, <1>6

(***************************************************************************)
(* The loops of addPart and dropPart                                       *)
(***************************************************************************)
LEMMA RotateWritable ==
    ASSUME NEW w \in Nat, w # 0, NEW L, Writable(L)
    PROVE  Writable(rotateAndDropIfNeeded(L, w))
  <1> DEFINE Q == rotateAndDropIfNeeded(L, w)
  <1>0. L \in Seq(LogFiles) /\ L # <<>> /\ L[Len(L)].torn = NotTorn
    BY DEF Writable
  <1>1. PICK B \in {L, rotate(L, w)} :
               /\ L = <<>> => B = rotate(L, w)
               /\ \E c \in 0..Len(B) : Q = Since(B, c) /\ (c = 0 \/ NewerRecords(B, c) > w)
    BY <1>0, RotateShape
  <1>2. B \in Seq(LogFiles) /\ B # <<>> /\ B[Len(B)].torn = NotTorn
    <2> DEFINE A == Append(L, NewLog)
    <2>1. A \in Seq(LogFiles) /\ A # <<>> /\ A[Len(A)] = NewLog
      BY <1>0, NewLogTyped, AppendProperties
    <2>2. A[Len(A)].torn = NotTorn
      BY <2>1 DEF NewLog
    <2>3. B = L \/ B = A
      BY <1>1 DEF rotate
    <2> QED
      BY <1>0, <2>1, <2>2, <2>3
  <1>3. PICK c \in 0..Len(B) : Q = Since(B, c) /\ (c = 0 \/ NewerRecords(B, c) > w)
    BY <1>1
  <1>4. /\ Q \in Seq(LogFiles) /\ Len(Q) = Len(B) - c
        /\ \A i \in 1..Len(B) - c : Q[i] = B[c + i]
    BY <1>2, <1>3, SinceTyped
  <1>5. c # Len(B)
    <2>1. c = Len(B) => NewerRecords(B, c) = 0
      BY <1>2, NewerTyped
    <2> QED
      BY <1>2, <1>3, <2>1
  <1> HIDE DEF Q
  <1>6. Len(Q) \in 1..Len(B) - c /\ c + Len(Q) = Len(B)
    BY <1>2, <1>4, <1>5
  <1>7. Q[Len(Q)] = B[Len(B)] /\ Q # <<>>
    BY <1>4, <1>6
  <1> QED
    BY <1>2, <1>4, <1>7 DEF Writable, Q

LEMMA InsertContent ==
    ASSUME NEW n \in Nat, n # 0, NEW m \in Maps(n), NEW e \in Entries
    PROVE  ToSet(insertEntry(m, e, n)) \subseteq ToSet(m) \cup {e}
  <1>0. m \in Seq(Entries) /\ Len(m) \in Nat /\ ToSet(m) = {m[i] : i \in 1..Len(m)}
    BY DEF Maps, ToSet
  <1>1. CASE mapContains(m, e.id)
    BY <1>1 DEF insertEntry
  <1>2. CASE ~mapContains(m, e.id)
    <2> DEFINE r == insertEntry(m, e, n)
    <2>1. /\ Len(r) = IF Len(m) = n THEN n ELSE Len(m) + 1
          /\ r[Len(r)] = e
          /\ \A i \in 1..Len(r) - 1 : r[i] = m[IF Len(m) = n THEN i + 1 ELSE i]
      BY <1>2, InsertNew
    <2>2. r \in Seq(Entries)
      BY InsertTyped DEF Maps
    <2> HIDE DEF r
    <2>3. ASSUME NEW i \in 1..Len(r) PROVE r[i] \in ToSet(m) \cup {e}
      <3>1. CASE i = Len(r)
        BY <2>1, <3>1
      <3>2. CASE i # Len(r)
        <4>1. i \in 1..Len(r) - 1
          BY <2>2, <3>2
        <4>2. (IF Len(m) = n THEN i + 1 ELSE i) \in 1..Len(m)
          BY <1>0, <2>1, <4>1
        <4> QED
          BY <1>0, <2>1, <4>1, <4>2
      <3> QED
        BY <3>1, <3>2
    <2>4. ToSet(r) = {r[i] : i \in 1..Len(r)}
      BY <2>2 DEF ToSet
    <2> QED
      BY <2>3, <2>4 DEF r
  <1> QED
    BY <1>1, <1>2

States(w) == [map : Maps(w), logs : {L \in Seq(LogFiles) : L # <<>>}]

LEMMA AddEntryTyped ==
    ASSUME window \in Nat, window # 0, NEW s \in States(window), NEW e \in Entries
    PROVE  /\ AddEntry(s, e) \in States(window)
           /\ AddEntry(s, e).map = insertEntry(s.map, e, window)
           /\ AddEntry(s, e).logs = writeRecord(s.logs, LogRecord("ADD", e))
  <1>1. s.map \in Maps(window) /\ s.logs \in Seq(LogFiles) /\ s.logs # <<>>
    BY DEF States
  <1>2. insertEntry(s.map, e, window) \in Maps(window)
    BY <1>1, InsertTyped
  <1>3. LogRecord("ADD", e) \in Records
    BY AddRecordTyped
  <1> DEFINE W == writeRecord(s.logs, LogRecord("ADD", e))
  <1>4. W \in Seq(LogFiles) /\ Len(W) = Len(s.logs)
    BY <1>1, <1>3, WriteTyped
  <1> HIDE DEF W
  <1>5. W # <<>>
    BY <1>1, <1>4
  <1> QED
    BY <1>2, <1>4, <1>5 DEF AddEntry, States, W

LEMMA AddLoop ==
    ASSUME window \in Nat, window # 0, map \in Maps(window), logs \in Seq(LogFiles), logs # <<>>,
           NEW new \in Seq(Entries)
    PROVE  \E g : /\ g \in [0..Len(new) -> States(window)]
                  /\ g[0] = [map |-> map, logs |-> logs]
                  /\ \A i \in 1..Len(new) : g[i] = AddEntry(g[i - 1], new[i])
                  /\ AddEntries(new) = g[Len(new)]
  <1> DEFINE N == Len(new)
             X == States(window)
             b == [map |-> map, logs |-> logs]
             P(g) == g = [i \in 0..N |-> IF i = 0 THEN b ELSE AddEntry(g[i - 1], new[i])]
             after == CHOOSE g : P(g)
             F == [p \in X \X (1..N) |-> AddEntry(p[1], new[p[2]])]
  <1>1. AddEntries(new) = after[N]
    BY DEF AddEntries
  <1>2. N \in Nat /\ \A i \in 1..N : new[i] \in Entries
    OBVIOUS
  <1>3. b \in X
    BY DEF States
  <1>4. \A x \in X, i \in 1..N : AddEntry(x, new[i]) \in X
    BY <1>2, AddEntryTyped
  <1> HIDE DEF N, X, b
  <1>5. F \in [X \X (1..N) -> X]
    BY <1>4
  <1>6. \A x \in X, i \in 1..N : F[<<x, i>>] = AddEntry(x, new[i])
    OBVIOUS
  <1> HIDE DEF F
  <1>7. PICK g \in [0..N -> X] : g[0] = b /\ \A i \in 1..N : g[i] = F[<<g[i - 1], i>>]
    <2>1. \E g : IsLoop(g, b, N, X, F)
      BY <1>2, <1>3, <1>5, LoopExists
    <2> QED
      BY <2>1, Zenon DEF IsLoop
  <1>8. P(g)
    <2>1. ASSUME NEW i \in 0..N
          PROVE  g[i] = IF i = 0 THEN b ELSE AddEntry(g[i - 1], new[i])
      <3>1. CASE i = 0
        BY <1>7, <3>1
      <3>2. CASE i \in 1..N
        <4>1. i - 1 \in 0..N
          BY <1>2, <3>2
        <4>2. g[i - 1] \in X
          BY <4>1
        <4> QED
          BY <1>6, <1>7, <3>2, <4>2
      <3> QED
        BY <1>2, <3>1, <3>2
    <2> QED
      BY <1>7, <2>1
  <1> HIDE DEF P
  <1>9. P(after)
    BY <1>8, Zenon
  <1> HIDE DEF after
  <1>10. /\ DOMAIN after = 0..N /\ after[0] = b
         /\ \A i \in 1..N : after[i] = AddEntry(after[i - 1], new[i])
    BY <1>2, <1>9 DEF P
  <1>11. \A i \in 0..N : after[i] \in X
    <2> DEFINE S == {k \in 0..N : after[k] \in X}
    <2>1. 0 \in S
      BY <1>2, <1>3, <1>10
    <2>2. ASSUME NEW k \in 0..N - 1, k \in S PROVE k + 1 \in S
      <3>1. k + 1 \in 1..N /\ (k + 1) - 1 = k
        BY <1>2
      <3>2. after[k + 1] = AddEntry(after[k], new[k + 1])
        BY <1>10, <3>1
      <3> QED
        BY <1>2, <1>4, <2>2, <3>1, <3>2
    <2> HIDE DEF S
    <2>3. 0..N \subseteq S
      BY <1>2, <2>1, <2>2, UpTo
    <2> QED
      BY <2>3 DEF S
  <1>12. after \in [0..N -> X]
    <2>1. after = [i \in 0..N |-> after[i]]
      BY <1>9 DEF P
    <2> QED
      BY <1>11, <2>1
  <1> QED
    BY <1>1, <1>10, <1>12 DEF N, X, b

(* The files hold what the map does, after every entry of the batch.       *)
LEMMA AddEntriesKeep ==
    ASSUME window \in Nat, window # 0, map \in Maps(window), logs \in Seq(LogFiles), logs # <<>>,
           NEW new \in Seq(Entries),
           \A i, j \in 1..Len(new) : i = j \/ new[i].id # new[j].id,
           \A i \in 1..Len(new) : ~mapContains(map, new[i].id)
    PROVE  /\ AddEntries(new) \in States(window)
           /\ ToSet(AddEntries(new).map) \subseteq ToSet(map) \cup ToSet(new)
           /\ Writable(logs) /\ Sound(map, logs, window) =>
                  /\ Sound(AddEntries(new).map, AddEntries(new).logs, window)
                  /\ Counts(logs) => Counts(AddEntries(new).logs)
                  /\ Whole(map, logs, window)
                         => Whole(AddEntries(new).map, AddEntries(new).logs, window)
  <1> DEFINE N == Len(new)
             Added(k) == {new[i] : i \in 1..k}
             Kept(s) == Writable(logs) /\ Sound(map, logs, window) =>
                            /\ Writable(s.logs)
                            /\ Sound(s.map, s.logs, window)
                            /\ Counts(logs) => Counts(s.logs)
                            /\ Whole(map, logs, window) => Whole(s.map, s.logs, window)
  <1>1. PICK g : /\ g \in [0..N -> States(window)]
                 /\ g[0] = [map |-> map, logs |-> logs]
                 /\ \A i \in 1..N : g[i] = AddEntry(g[i - 1], new[i])
                 /\ AddEntries(new) = g[N]
    BY AddLoop
  <1>2. N \in Nat /\ \A i \in 1..N : new[i] \in Entries
    OBVIOUS
  <1> DEFINE S == {k \in 0..N : ToSet(g[k].map) \subseteq ToSet(map) \cup Added(k) /\ Kept(g[k])}
  <1>3. 0 \in S
    BY <1>1, <1>2
  <1>4. ASSUME NEW k \in 0..N - 1, k \in S PROVE k + 1 \in S
    <2> DEFINE s == g[k]
               e == new[k + 1]
               t == g[k + 1]
    <2>1. k + 1 \in 1..N /\ (k + 1) - 1 = k /\ k \in 0..N /\ k + 1 \in 0..N
      BY <1>2
    <2>2. s \in States(window) /\ e \in Entries /\ t = AddEntry(s, e)
      BY <1>1, <1>2, <2>1
    <2>3. ToSet(s.map) \subseteq ToSet(map) \cup Added(k) /\ Kept(s)
      BY <1>4
    <2>4. \A x \in Added(k) : x.id # e.id
      <3>1. ASSUME NEW i \in 1..k PROVE new[i].id # new[k + 1].id
        <4>1. i \in 1..N /\ i # k + 1
          BY <1>2, <2>1
        <4> QED
          BY <2>1, <4>1
      <3> QED
        BY <3>1
    <2>5. ~mapContains(map, e.id)
      BY <2>1
    <2> HIDE DEF s, e, t
    <2>6. ~mapContains(s.map, e.id)
      BY <2>3, <2>4, <2>5 DEF mapContains
    <2>7. s.map \in Maps(window)
      BY <2>2 DEF States
    <2>8. t.map = insertEntry(s.map, e, window) /\ t.logs = writeRecord(s.logs, LogRecord("ADD", e))
      BY <2>2, AddEntryTyped
    <2>9. Added(k) \cup {e} \subseteq Added(k + 1)
      BY <2>1 DEF e
    <2>10. ToSet(t.map) \subseteq ToSet(map) \cup Added(k + 1)
      <3>1. ToSet(insertEntry(s.map, e, window)) \subseteq ToSet(s.map) \cup {e}
        BY <2>2, <2>7, InsertContent
      <3> HIDE DEF Added
      <3> QED
        BY <2>3, <2>8, <2>9, <3>1
    <2>11. Kept(t)
      <3> SUFFICES ASSUME Writable(logs) /\ Sound(map, logs, window)
                   PROVE  /\ Writable(t.logs)
                          /\ Sound(t.map, t.logs, window)
                          /\ Counts(logs) => Counts(t.logs)
                          /\ Whole(map, logs, window) => Whole(t.map, t.logs, window)
        OBVIOUS
      <3>1. /\ Writable(s.logs) /\ Sound(s.map, s.logs, window)
            /\ Counts(logs) => Counts(s.logs)
            /\ Whole(map, logs, window) => Whole(s.map, s.logs, window)
        BY <2>3
      <3>2. LogRecord("ADD", e) \in Records
        BY <2>2, AddRecordTyped
      <3>3. Writable(t.logs) /\ (Counts(s.logs) => Counts(t.logs))
        BY <2>8, <3>1, <3>2, WriteKeepsWritable
      <3>4. Sound(t.map, t.logs, window)
        BY <2>2, <2>6, <2>7, <2>8, <3>1, AddKeeps
      <3>5. Whole(s.map, s.logs, window) => Whole(t.map, t.logs, window)
        BY <2>2, <2>6, <2>7, <2>8, <3>1, AddWhole
      <3> QED
        BY <3>1, <3>3, <3>4, <3>5
    <2> HIDE DEF Kept, Added
    <2> QED
      BY <2>1, <2>10, <2>11 DEF t
  <1> HIDE DEF S
  <1>5. 0..N \subseteq S
    BY <1>2, <1>3, <1>4, UpTo
  <1>6. ToSet(g[N].map) \subseteq ToSet(map) \cup Added(N) /\ Kept(g[N])
    BY <1>2, <1>5 DEF S
  <1>7. Added(N) = ToSet(new)
    BY DEF ToSet
  <1>8. g[N] \in States(window)
    BY <1>1, <1>2
  <1> HIDE DEF Added
  <1> QED
    BY <1>1, <1>6, <1>7, <1>8

LEMMA DropEntryTyped ==
    ASSUME window \in Nat, window # 0, NEW s \in States(window), NEW e \in Entries
    PROVE  /\ DropEntry(s, e) \in States(window)
           /\ DropEntry(s, e).map = erase(s.map, e.id)
           /\ DropEntry(s, e).logs
                 = rotateAndDropIfNeeded(writeRecord(s.logs, LogRecord("DROP", e)), window)
  <1>1. s.map \in Maps(window) /\ s.logs \in Seq(LogFiles) /\ s.logs # <<>>
    BY DEF States
  <1>2. erase(s.map, e.id) \in Maps(window)
    BY <1>1, EraseTyped
  <1>3. LogRecord("DROP", e) \in Records
    BY AddRecordTyped
  <1> DEFINE W == writeRecord(s.logs, LogRecord("DROP", e))
             Q == rotateAndDropIfNeeded(W, window)
  <1>4. W \in Seq(LogFiles)
    BY <1>1, <1>3, WriteTyped
  <1> HIDE DEF W
  <1>5. Q \in Seq(LogFiles) /\ Q # <<>>
    BY <1>4, RotateFiles DEF Files
  <1> HIDE DEF Q
  <1> QED
    BY <1>2, <1>5 DEF DropEntry, States, W, Q

(* What one turn of the loop of dropPart makes of the state s.             *)
Dropped(info, s, e) == IF Covered(info, e) THEN DropEntry(s, e) ELSE s

LEMMA DropLoop ==
    ASSUME window \in Nat, window # 0, map \in Maps(window), logs \in Seq(LogFiles), logs # <<>>,
           NEW info
    PROVE  \E g : /\ g \in [0..Len(map) -> States(window)]
                  /\ g[0] = [map |-> map, logs |-> logs]
                  /\ \A i \in 1..Len(map) : g[i] = Dropped(info, g[i - 1], map[i])
                  /\ DropEntries(info) = g[Len(map)]
  <1> DEFINE N == Len(map)
             X == States(window)
             b == [map |-> map, logs |-> logs]
             P(g) == g = [i \in 0..N |-> IF i = 0 THEN b
                                         ELSE IF Covered(info, map[i])
                                              THEN DropEntry(g[i - 1], map[i])
                                              ELSE g[i - 1]]
             after == CHOOSE g : P(g)
             F == [p \in X \X (1..N) |-> Dropped(info, p[1], map[p[2]])]
  <1>1. DropEntries(info) = after[N]
    BY DEF DropEntries
  <1>2. N \in Nat /\ \A i \in 1..N : map[i] \in Entries
    BY DEF Maps
  <1>3. b \in X
    BY DEF States
  <1>4. \A x \in X, i \in 1..N : Dropped(info, x, map[i]) \in X
    BY <1>2, DropEntryTyped DEF Dropped
  <1> HIDE DEF N, X, b
  <1>5. F \in [X \X (1..N) -> X]
    BY <1>4
  <1>6. \A x \in X, i \in 1..N : F[<<x, i>>] = Dropped(info, x, map[i])
    OBVIOUS
  <1> HIDE DEF F
  <1>7. PICK g \in [0..N -> X] : g[0] = b /\ \A i \in 1..N : g[i] = F[<<g[i - 1], i>>]
    <2>1. \E g : IsLoop(g, b, N, X, F)
      BY <1>2, <1>3, <1>5, LoopExists
    <2> QED
      BY <2>1, Zenon DEF IsLoop
  <1>8. P(g)
    <2>1. ASSUME NEW i \in 0..N
          PROVE  g[i] = IF i = 0 THEN b
                        ELSE IF Covered(info, map[i]) THEN DropEntry(g[i - 1], map[i])
                        ELSE g[i - 1]
      <3>1. CASE i = 0
        BY <1>7, <3>1
      <3>2. CASE i \in 1..N
        <4>1. i - 1 \in 0..N
          BY <1>2, <3>2
        <4>2. g[i - 1] \in X
          BY <4>1
        <4>3. g[i] = Dropped(info, g[i - 1], map[i])
          BY <1>6, <1>7, <3>2, <4>2
        <4> QED
          BY <3>2, <4>3 DEF Dropped
      <3> QED
        BY <1>2, <3>1, <3>2
    <2> QED
      BY <1>7, <2>1
  <1> HIDE DEF P
  <1>9. P(after)
    BY <1>8, Zenon
  <1> HIDE DEF after
  <1>10. /\ DOMAIN after = 0..N /\ after[0] = b
         /\ \A i \in 1..N : after[i] = Dropped(info, after[i - 1], map[i])
    <2>1. DOMAIN after = 0..N
      BY <1>9 DEF P
    <2>2. \A i \in 0..N :
              after[i] = IF i = 0 THEN b
                         ELSE IF Covered(info, map[i]) THEN DropEntry(after[i - 1], map[i])
                         ELSE after[i - 1]
      BY <1>9 DEF P
    <2>3. 0 \in 0..N /\ \A i \in 1..N : i \in 0..N /\ i # 0
      BY <1>2
    <2> QED
      BY <2>1, <2>2, <2>3 DEF Dropped
  <1>11. \A i \in 0..N : after[i] \in X
    <2> DEFINE S == {k \in 0..N : after[k] \in X}
    <2>1. 0 \in S
      BY <1>2, <1>3, <1>10
    <2>2. ASSUME NEW k \in 0..N - 1, k \in S PROVE k + 1 \in S
      <3>1. k + 1 \in 1..N /\ (k + 1) - 1 = k
        BY <1>2
      <3>2. after[k + 1] = Dropped(info, after[k], map[k + 1])
        BY <1>10, <3>1
      <3> QED
        BY <1>2, <1>4, <2>2, <3>1, <3>2
    <2> HIDE DEF S
    <2>3. 0..N \subseteq S
      BY <1>2, <2>1, <2>2, UpTo
    <2> QED
      BY <2>3 DEF S
  <1>12. after \in [0..N -> X]
    <2>1. after = [i \in 0..N |-> after[i]]
      BY <1>9 DEF P
    <2> QED
      BY <1>11, <2>1
  <1> QED
    BY <1>1, <1>10, <1>12 DEF N, X, b

(* After the loop no covered entry is in the map; what restarts find has   *)
(* lost them too.                                                          *)
LEMMA DropEntriesKeep ==
    ASSUME window \in Nat, window # 0, map \in Maps(window), logs \in Seq(LogFiles), logs # <<>>,
           NEW info
    PROVE  /\ DropEntries(info) \in States(window)
           /\ ToSet(DropEntries(info).map) \subseteq {e \in ToSet(map) : ~Covered(info, e)}
           /\ Writable(logs) /\ Sound(map, logs, window) =>
                  /\ Sound(DropEntries(info).map, DropEntries(info).logs, window)
                  /\ Counts(logs) => Counts(DropEntries(info).logs)
  <1> DEFINE N == Len(map)
             Remaining(k) ==
                 {e \in ToSet(map) : \A i \in 1..k : Covered(info, map[i]) => e # map[i]}
             Kept(s) == Writable(logs) /\ Sound(map, logs, window) =>
                            /\ Writable(s.logs)
                            /\ Sound(s.map, s.logs, window)
                            /\ Counts(logs) => Counts(s.logs)
  <1>1. PICK g : /\ g \in [0..N -> States(window)]
                 /\ g[0] = [map |-> map, logs |-> logs]
                 /\ \A i \in 1..N : g[i] = Dropped(info, g[i - 1], map[i])
                 /\ DropEntries(info) = g[N]
    BY DropLoop
  <1>2. N \in Nat /\ \A i \in 1..N : map[i] \in Entries
    BY DEF Maps
  <1> DEFINE S == {k \in 0..N : ToSet(g[k].map) \subseteq Remaining(k) /\ Kept(g[k])}
  <1>3. 0 \in S
    BY <1>1, <1>2
  <1>4. ASSUME NEW k \in 0..N - 1, k \in S PROVE k + 1 \in S
    <2> DEFINE s == g[k]
               e == map[k + 1]
               t == g[k + 1]
    <2>1. k + 1 \in 1..N /\ (k + 1) - 1 = k /\ k \in 0..N /\ k + 1 \in 0..N
      BY <1>2
    <2>2. s \in States(window) /\ e \in Entries /\ t = Dropped(info, s, e)
      BY <1>1, <1>2, <2>1
    <2>3. ToSet(s.map) \subseteq Remaining(k) /\ Kept(s)
      BY <1>4
    <2>4. \A x \in Remaining(k) : ~Covered(info, e) \/ x # e => x \in Remaining(k + 1)
      <3>1. ASSUME NEW x \in Remaining(k), ~Covered(info, e) \/ x # e, NEW i \in 1..k + 1,
                   Covered(info, map[i])
            PROVE  x # map[i]
        <4>1. CASE i = k + 1
          BY <3>1, <4>1
        <4>2. CASE i # k + 1
          <5>1. i \in 1..k
            BY <1>2, <4>2
          <5> QED
            BY <3>1, <5>1
        <4> QED
          BY <4>1, <4>2
      <3> QED
        BY <3>1
    <2> HIDE DEF s, e, t
    <2>5. CASE ~Covered(info, e)
      <3>1. t = s
        BY <2>2, <2>5 DEF Dropped
      <3>2. ToSet(t.map) \subseteq Remaining(k + 1)
        BY <2>3, <2>4, <2>5, <3>1
      <3> HIDE DEF Remaining, Kept
      <3> QED
        BY <2>1, <2>3, <3>1, <3>2 DEF t
    <2>6. CASE Covered(info, e)
      <3> DEFINE W == writeRecord(s.logs, LogRecord("DROP", e))
      <3>1. s.map \in Maps(window) /\ t = DropEntry(s, e)
        BY <2>2, <2>6 DEF States, Dropped
      <3>2. t.map = erase(s.map, e.id) /\ t.logs = rotateAndDropIfNeeded(W, window)
        BY <2>2, <3>1, DropEntryTyped
      <3>3. ToSet(t.map) \subseteq Remaining(k + 1)
        <4>1. ToSet(t.map) = {x \in ToSet(s.map) : x.id # e.id}
          BY <3>1, <3>2, EraseContent
        <4> HIDE DEF Remaining
        <4> QED
          BY <2>3, <2>4, <4>1
      <3>4. Kept(t)
        <4> SUFFICES ASSUME Writable(logs) /\ Sound(map, logs, window)
                     PROVE  /\ Writable(t.logs)
                            /\ Sound(t.map, t.logs, window)
                            /\ Counts(logs) => Counts(t.logs)
          OBVIOUS
        <4>1. /\ Writable(s.logs) /\ Sound(s.map, s.logs, window)
              /\ Counts(logs) => Counts(s.logs)
          BY <2>3
        <4>2. LogRecord("DROP", e) \in Records
          BY <2>2, AddRecordTyped
        <4>3. Writable(W) /\ (Counts(s.logs) => Counts(W))
          BY <4>1, <4>2, WriteKeepsWritable
        <4>4. Sound(t.map, W, window)
          BY <2>2, <3>1, <3>2, <4>1, DropKeeps
        <4>5. t.map \in Seq(Entries) /\ W \in Seq(LogFiles)
          BY <3>1, <3>2, <4>3, EraseTyped DEF Maps, Writable
        <4> HIDE DEF W
        <4>6. /\ Sound(t.map, rotateAndDropIfNeeded(W, window), window)
              /\ Counts(W) => Counts(rotateAndDropIfNeeded(W, window))
          BY <4>4, <4>5, RotateKeeps
        <4>7. Writable(rotateAndDropIfNeeded(W, window))
          BY <4>3, RotateWritable
        <4> QED
          BY <3>2, <4>1, <4>3, <4>6, <4>7
      <3> HIDE DEF Remaining, Kept
      <3> QED
        BY <2>1, <3>3, <3>4 DEF t
    <2> QED
      BY <2>5, <2>6
  <1> HIDE DEF S
  <1>5. 0..N \subseteq S
    BY <1>2, <1>3, <1>4, UpTo
  <1>6. ToSet(g[N].map) \subseteq Remaining(N) /\ Kept(g[N])
    <2>1. N \in S
      BY <1>2, <1>5
    <2> HIDE DEF Remaining, Kept, N
    <2> QED
      BY <2>1 DEF S
  <1>7. Remaining(N) \subseteq {e \in ToSet(map) : ~Covered(info, e)}
    <2>1. ToSet(map) = {map[i] : i \in 1..N}
      BY DEF ToSet, Maps
    <2> QED
      BY <2>1
  <1>8. g[N] \in States(window)
    BY <1>1, <1>2
  <1> HIDE DEF Remaining
  <1> QED
    BY <1>1, <1>6, <1>7, <1>8

(* If the dropped part covers no entry, nothing is written.                *)
LEMMA DropNothing ==
    ASSUME window \in Nat, window # 0, map \in Maps(window), logs \in Seq(LogFiles), logs # <<>>,
           NEW info, \A e \in ToSet(map) : ~Covered(info, e)
    PROVE  DropEntries(info) = [map |-> map, logs |-> logs]
  <1> DEFINE N == Len(map)
             b == [map |-> map, logs |-> logs]
  <1>1. PICK g : /\ g \in [0..N -> States(window)]
                 /\ g[0] = b
                 /\ \A i \in 1..N : g[i] = Dropped(info, g[i - 1], map[i])
                 /\ DropEntries(info) = g[N]
    BY DropLoop
  <1>2. N \in Nat /\ \A i \in 1..N : ~Covered(info, map[i])
    BY DEF Maps, ToSet
  <1> HIDE DEF b
  <1> DEFINE S == {k \in 0..N : g[k] = b}
  <1>3. 0 \in S
    BY <1>1, <1>2
  <1>4. ASSUME NEW k \in 0..N - 1, k \in S PROVE k + 1 \in S
    <2>1. k + 1 \in 1..N /\ (k + 1) - 1 = k /\ k + 1 \in 0..N
      BY <1>2
    <2>2. g[k + 1] = Dropped(info, g[k], map[k + 1])
      BY <1>1, <2>1
    <2>3. g[k + 1] = g[k]
      BY <1>2, <2>1, <2>2 DEF Dropped
    <2> QED
      BY <1>4, <2>1, <2>3
  <1> HIDE DEF S
  <1>5. 0..N \subseteq S
    BY <1>2, <1>3, <1>4, UpTo
  <1>6. g[N] = b
    BY <1>2, <1>5 DEF S
  <1> QED
    BY <1>1, <1>6 DEF b

(***************************************************************************)
(* The inductive invariant                                                 *)
(***************************************************************************)
Typed ==
    /\ window \in Windows /\ map \in Maps(window) /\ Files(logs, window)
    /\ pending \subseteq Entries /\ rows \subseteq Entries /\ interrupted \subseteq Entries
    /\ increment \in 0..MaxNumber
    /\ append \in BOOLEAN /\ up \in BOOLEAN /\ events \subseteq {"dropped", "grown", "damaged"}
    /\ inserts \in 0..MaxInserts /\ restarts \in 0..MaxRestarts
    /\ failures \in 0..MaxFailures /\ changes \in 0..MaxChanges
    /\ ~up => restarts < MaxRestarts

(* Nothing but drops happened: the files say no more than the map, and the *)
(* map no more than the table.                                             *)
Honest ==
    events \subseteq {"dropped"} =>
        /\ Sound(map, logs, window)
        /\ window # 0 => Counts(logs)
        /\ ToSet(map) \subseteq rows \cup pending \cup interrupted

(* Nothing happened at all: the files say everything that the map does.    *)
Complete == events = {} => Whole(map, logs, window)

DedupInv == Typed /\ Honest /\ Complete

(* What the steps that leave the log alone have to show.                   *)
LEMMA SameLog ==
    ASSUME DedupInv, Typed', UNCHANGED <<map, logs, window, events>>,
           rows \cup pending \cup interrupted \subseteq rows' \cup pending' \cup interrupted'
    PROVE  DedupInv'
  BY DEF DedupInv, Honest, Complete

LEMMA TypedLog ==
    ASSUME Typed
    PROVE  window \in Nat /\ map \in Maps(window) /\ map \in Seq(Entries) /\ logs \in Seq(LogFiles)
           /\ (window # 0 => logs # <<>>)
  BY DedupAssumption DEF Typed, Files, Maps

LEMMA CommitPartKeeps == ASSUME DedupInv, commitPart PROVE DedupInv'
  <1>1. Typed'
    BY DEF DedupInv, Typed, commitPart, NoInsert, budget
  <1> QED
    BY <1>1, SameLog DEF commitPart, NoInsert

LEMMA CommitPartThrowsKeeps == ASSUME DedupInv, commitPartThrows PROVE DedupInv'
  <1>1. Typed'
    BY DedupAssumption DEF DedupInv, Typed, commitPartThrows, NoInsert
  <1> QED
    BY <1>1, SameLog DEF commitPartThrows, NoInsert

LEMMA ShutdownKeeps == ASSUME DedupInv, shutdown PROVE DedupInv'
  <1>1. Typed'
    BY DEF DedupInv, Typed, shutdown, budget
  <1> QED
    BY <1>1, SameLog DEF shutdown

LEMMA AddPartDuplicateKeeps ==
    ASSUME DedupInv, NEW ids, addPartDuplicate(ids)
    PROVE  DedupInv'
  <1>1. Typed'
    BY DedupAssumption DEF DedupInv, Typed, addPartDuplicate, fillNewPartName
  <1> QED
    BY <1>1, SameLog DEF addPartDuplicate

LEMMA EntriesOfTyped ==
    ASSUME NEW ids \in Batches, NEW n \in 1..MaxNumber,
           \A i \in DOMAIN ids : ~mapContains(map, ids[i])
    PROVE  /\ EntriesOf(ids, n) \in Seq(Entries)
           /\ \A i, j \in 1..Len(EntriesOf(ids, n)) :
                  i = j \/ EntriesOf(ids, n)[i].id # EntriesOf(ids, n)[j].id
           /\ \A i \in 1..Len(EntriesOf(ids, n)) : ~mapContains(map, EntriesOf(ids, n)[i].id)
           /\ ToSet(EntriesOf(ids, n)) \subseteq Entries
  <1> DEFINE E == EntriesOf(ids, n)
  <1>1. PICK len \in 1..MaxBatch : ids \in [1..len -> BlockIds]
    BY DEF Batches
  <1>2. \A i, j \in 1..len : i = j \/ ids[i] # ids[j]
    BY <1>1 DEF Batches
  <1>3. len \in Nat /\ DOMAIN ids = 1..len
    BY <1>1, DedupAssumption
  <1>4. E = [i \in 1..len |-> [id |-> ids[i], part |-> n]]
    BY <1>3 DEF EntriesOf
  <1>5. E \in [1..len -> Entries]
    BY <1>1, <1>4 DEF Entries
  <1>6. E \in Seq(Entries) /\ Len(E) = len
    BY <1>3, <1>4, <1>5
  <1>7. \A i \in 1..len : E[i].id = ids[i]
    BY <1>4
  <1>8. ToSet(E) \subseteq Entries
    BY <1>3, <1>4, <1>5 DEF ToSet
  <1> HIDE DEF E
  <1>9. /\ \A i, j \in 1..Len(E) : i = j \/ E[i].id # E[j].id
        /\ \A i \in 1..Len(E) : ~mapContains(map, E[i].id)
    BY <1>2, <1>3, <1>6, <1>7
  <1> QED
    BY <1>6, <1>8, <1>9 DEF E

LEMMA AddPartKeeps ==
    ASSUME DedupInv, NEW ids \in Batches, addPart(ids)
    PROVE  DedupInv'
  <1> DEFINE new == EntriesOf(ids, increment + 1)
             W   == AddEntries(new).logs
             M   == AddEntries(new).map
  <1>1. /\ up /\ pending = {} /\ increment' = increment + 1 /\ inserts' = inserts + 1
        /\ increment < MaxNumber /\ inserts < MaxInserts
        /\ pending' = ToSet(new) /\ rows' = rows /\ interrupted' = interrupted /\ window' = window
        /\ UNCHANGED <<append, up, restarts, failures, changes>>
    BY DEF addPart, fillNewPartName, NoInsert
  <1>2. window = 0 => UNCHANGED <<map, logs, events>>
    BY DEF addPart
  <1>3. window # 0 => map' = M /\ logs' = rotateAndDropIfNeeded(W, window)
                      /\ events' = events \cup Damage
    BY DEF addPart
  <1>4. Typed
    BY DEF DedupInv
  <1>5. increment + 1 \in 1..MaxNumber /\ inserts + 1 \in 0..MaxInserts
    BY <1>1, <1>4, DedupAssumption DEF Typed
  <1>6. /\ new \in Seq(Entries) /\ ToSet(new) \subseteq Entries
        /\ \A i, j \in 1..Len(new) : i = j \/ new[i].id # new[j].id
        /\ \A i \in 1..Len(new) : ~mapContains(map, new[i].id)
    BY <1>5, EntriesOfTyped DEF addPart
  <1>7. window \in Nat /\ map \in Maps(window) /\ logs \in Seq(LogFiles)
        /\ (window # 0 => logs # <<>>)
    BY <1>4, TypedLog
  <1> HIDE DEF new, W, M
  <1>8. ASSUME window # 0
        PROVE  /\ M \in Maps(window) /\ M \in Seq(Entries) /\ W \in Seq(LogFiles)
               /\ ToSet(M) \subseteq ToSet(map) \cup ToSet(new)
               /\ Writable(logs) /\ Sound(map, logs, window) =>
                      /\ Sound(M, W, window)
                      /\ Counts(logs) => Counts(W)
                      /\ Whole(map, logs, window) => Whole(M, W, window)
    <2>1. /\ AddEntries(new) \in States(window)
          /\ ToSet(AddEntries(new).map) \subseteq ToSet(map) \cup ToSet(new)
          /\ Writable(logs) /\ Sound(map, logs, window) =>
                 /\ Sound(AddEntries(new).map, AddEntries(new).logs, window)
                 /\ Counts(logs) => Counts(AddEntries(new).logs)
                 /\ Whole(map, logs, window)
                        => Whole(AddEntries(new).map, AddEntries(new).logs, window)
      BY <1>6, <1>7, <1>8, AddEntriesKeep
    <2>2. M \in Maps(window) /\ W \in Seq(LogFiles)
      BY <2>1 DEF M, W, States
    <2>3. M \in Seq(Entries)
      BY <2>2 DEF Maps
    <2> QED
      BY <2>1, <2>2, <2>3 DEF M, W
  <1>9. Damage = {} /\ window # 0 => Writable(logs)
    BY <1>7 DEF Damage, Writable, Last
  <1>10. Damage \subseteq {"damaged"}
    BY DEF Damage
  <1>11. Files(logs', window) /\ map' \in Maps(window)
    <2>1. CASE window = 0
      BY <1>2, <1>4, <2>1 DEF Typed
    <2>2. CASE window # 0
      BY <1>3, <1>7, <1>8, <2>2, RotateFiles
    <2> QED
      BY <2>1, <2>2
  <1>12. events' \subseteq {"dropped", "grown", "damaged"}
    BY <1>2, <1>3, <1>4, <1>10 DEF Typed
  <1>13. Typed'
    BY <1>1, <1>4, <1>5, <1>6, <1>11, <1>12 DEF Typed
  <1>14. ASSUME window # 0, events' \subseteq {"dropped"}
         PROVE  /\ Sound(M, rotateAndDropIfNeeded(W, window), window)
                /\ Counts(rotateAndDropIfNeeded(W, window))
                /\ ToSet(M) \subseteq rows \cup ToSet(new) \cup interrupted
                /\ events = {} => Whole(M, rotateAndDropIfNeeded(W, window), window)
    <2>1. Damage = {} /\ events \subseteq {"dropped"}
      BY <1>3, <1>10, <1>14
    <2>2. Sound(map, logs, window) /\ Counts(logs) /\ ToSet(map) \subseteq rows \cup interrupted
      BY <1>1, <1>14, <2>1 DEF DedupInv, Honest
    <2>3. Sound(M, W, window) /\ Counts(W)
          /\ (Whole(map, logs, window) => Whole(M, W, window))
      BY <1>8, <1>9, <1>14, <2>1, <2>2
    <2>4. /\ Sound(M, rotateAndDropIfNeeded(W, window), window)
          /\ Whole(M, W, window) => Whole(M, rotateAndDropIfNeeded(W, window), window)
          /\ Counts(W) => Counts(rotateAndDropIfNeeded(W, window))
      BY <1>7, <1>8, <1>14, <2>3, RotateKeeps
    <2>5. events = {} => Whole(map, logs, window)
      BY DEF DedupInv, Complete
    <2> QED
      BY <1>8, <1>14, <2>2, <2>3, <2>4, <2>5
  <1>15. CASE window = 0
    <2>1. rows \cup pending \cup interrupted \subseteq rows' \cup pending' \cup interrupted'
      BY <1>1
    <2> QED
      BY <1>1, <1>2, <1>13, <1>15, <2>1, SameLog
  <1>16. CASE window # 0
    <2>1. Honest'
      BY <1>1, <1>3, <1>14, <1>16 DEF Honest
    <2>2. Complete'
      <3>1. events' = {} => events = {} /\ events' \subseteq {"dropped"}
        BY <1>3, <1>16
      <3> QED
        BY <1>1, <1>3, <1>14, <1>16, <3>1 DEF Complete
    <2> QED
      BY <1>13, <2>1, <2>2 DEF DedupInv
  <1> QED
    BY <1>15, <1>16

LEMMA DropPartKeeps ==
    ASSUME DedupInv, NEW lo \in 1..MaxNumber, NEW hi \in 1..MaxNumber, dropPart(lo, hi)
    PROVE  DedupInv'
  <1> DEFINE info == [min |-> lo, max |-> hi, level |-> IF lo = hi THEN 0 ELSE 1, mutation |-> 0]
             M    == DropEntries(info).map
             K    == DropEntries(info).logs
             hit  == \E e \in ToSet(map) : Covered(info, e)
  <1>1. /\ up /\ pending = {} /\ rows' = {e \in rows : ~Covered(info, e)}
        /\ window' = window
        /\ UNCHANGED <<pending, increment, interrupted, append, up, inserts, restarts, failures,
                       changes>>
    BY DEF dropPart, budget, NoInsert
  <1>2. window = 0 => UNCHANGED <<map, logs, events>>
    BY DEF dropPart
  <1>3. window # 0 =>
            /\ map' = M /\ logs' = K
            /\ events' = IF hit THEN events \cup {"dropped"} \cup Damage ELSE events
    BY DEF dropPart
  <1> HIDE DEF info, M, K, hit
  <1>4. Typed
    BY DEF DedupInv
  <1>5. window \in Nat /\ map \in Maps(window) /\ logs \in Seq(LogFiles)
        /\ (window # 0 => logs # <<>>)
    BY <1>4, TypedLog
  <1>6. ASSUME window # 0
        PROVE  /\ M \in Maps(window) /\ Files(K, window)
               /\ ToSet(M) \subseteq {e \in ToSet(map) : ~Covered(info, e)}
               /\ Writable(logs) /\ Sound(map, logs, window) =>
                      Sound(M, K, window) /\ (Counts(logs) => Counts(K))
    <2>1. /\ DropEntries(info) \in States(window)
          /\ ToSet(DropEntries(info).map) \subseteq {e \in ToSet(map) : ~Covered(info, e)}
          /\ Writable(logs) /\ Sound(map, logs, window) =>
                 /\ Sound(DropEntries(info).map, DropEntries(info).logs, window)
                 /\ Counts(logs) => Counts(DropEntries(info).logs)
      BY <1>5, <1>6, DropEntriesKeep
    <2>2. M \in Maps(window) /\ K \in Seq(LogFiles) /\ K # <<>>
      BY <2>1 DEF M, K, States
    <2> QED
      BY <2>1, <2>2 DEF M, K, Files
  <1>7. ASSUME window # 0, ~hit PROVE M = map /\ K = logs
    <2>1. \A e \in ToSet(map) : ~Covered(info, e)
      BY <1>7 DEF hit
    <2>2. DropEntries(info) = [map |-> map, logs |-> logs]
      BY <1>5, <1>7, <2>1, DropNothing
    <2> QED
      BY <2>2 DEF M, K
  <1>8. Damage = {} /\ window # 0 => Writable(logs)
    BY <1>5 DEF Damage, Writable, Last
  <1>9. Damage \subseteq {"damaged"}
    BY DEF Damage
  <1>10. rows' \subseteq Entries
    BY <1>1, <1>4 DEF Typed
  <1>11. Files(logs', window) /\ map' \in Maps(window)
    BY <1>2, <1>3, <1>4, <1>6 DEF Typed
  <1>12. events' \subseteq {"dropped", "grown", "damaged"} /\ events \subseteq events'
    BY <1>2, <1>3, <1>4, <1>9 DEF Typed
  <1>13. Typed'
    BY <1>1, <1>4, <1>10, <1>11, <1>12 DEF Typed
  <1>14. events \subseteq {"dropped"} => ToSet(map) \subseteq rows \cup interrupted
    BY <1>1 DEF DedupInv, Honest
  <1>15. CASE window = 0
    <2>1. ToSet(map) = {}
      BY <1>5, <1>15 DEF Maps, ToSet
    <2> QED
      BY <1>1, <1>2, <1>13, <1>15, <2>1 DEF DedupInv, Honest, Complete
  <1>16. CASE window # 0 /\ ~hit
    <2>1. UNCHANGED <<map, logs, events, window>>
      BY <1>1, <1>3, <1>7, <1>16
    <2>2. ASSUME events \subseteq {"dropped"}
          PROVE  ToSet(map) \subseteq rows' \cup pending' \cup interrupted'
      BY <1>1, <1>14, <1>16, <2>2 DEF hit
    <2> QED
      BY <1>13, <2>1, <2>2 DEF DedupInv, Honest, Complete
  <1>17. CASE window # 0 /\ hit
    <2>1. map' = M /\ logs' = K /\ events' = events \cup {"dropped"} \cup Damage
      BY <1>3, <1>17
    <2>2. ASSUME events' \subseteq {"dropped"}
          PROVE  /\ Sound(M, K, window) /\ Counts(K)
                 /\ ToSet(M) \subseteq rows' \cup interrupted
      <3>1. Damage = {} /\ events \subseteq {"dropped"}
        BY <1>9, <2>1, <2>2
      <3>2. Sound(map, logs, window) /\ Counts(logs)
        BY <1>17, <3>1 DEF DedupInv, Honest
      <3>3. Sound(M, K, window) /\ Counts(K)
        BY <1>6, <1>8, <1>17, <3>1, <3>2
      <3>4. ToSet(M) \subseteq rows' \cup interrupted
        BY <1>1, <1>6, <1>14, <1>17, <3>1
      <3> QED
        BY <3>3, <3>4
    <2>3. Honest'
      BY <1>1, <2>1, <2>2 DEF Honest
    <2>4. Complete'
      BY <2>1 DEF Complete
    <2> QED
      BY <1>13, <2>3, <2>4 DEF DedupInv
  <1> QED
    BY <1>15, <1>16, <1>17

LEMMA SetWindowKeeps ==
    ASSUME DedupInv, NEW n \in Windows, setDeduplicationWindowSize(n)
    PROVE  DedupInv'
  <1> DEFINE M == setMaxSize(map, n)
             K == rotateAndDropIfNeeded(logs, n)
  <1>1. /\ window' = n /\ map' = M /\ logs' = K
        /\ events' = IF n > window THEN events \cup {"grown"} ELSE events
        /\ changes < MaxChanges /\ changes' = changes + 1
        /\ UNCHANGED <<pending, increment, rows, interrupted, append, up, inserts, restarts,
                       failures>>
    BY DEF setDeduplicationWindowSize
  <1>2. Typed
    BY DEF DedupInv
  <1>3. window \in Nat /\ map \in Maps(window) /\ map \in Seq(Entries) /\ logs \in Seq(LogFiles)
        /\ (window # 0 => logs # <<>>)
    BY <1>2, TypedLog
  <1>4. n \in Nat
    BY DedupAssumption
  <1>5. M \in Maps(n) /\ EndsWith(M, map)
    BY <1>3, <1>4, SetMaxSize
  <1>6. M \in Seq(Entries)
    BY <1>5 DEF Maps
  <1>7. Files(K, n)
    BY <1>3, <1>4, RotateFiles
  <1>8. changes + 1 \in 0..MaxChanges
    BY <1>1, <1>2, DedupAssumption DEF Typed
  <1> HIDE DEF M, K
  <1>9. Typed'
    BY <1>1, <1>2, <1>5, <1>7, <1>8 DEF Typed
  <1>10. CASE n > window
    BY <1>1, <1>9, <1>10 DEF DedupInv, Honest, Complete
  <1>11. CASE ~(n > window)
    <2>1. n <= window /\ events' = events
      BY <1>1, <1>3, <1>4, <1>11
    <2>2. ASSUME events \subseteq {"dropped"}
          PROVE  /\ Sound(M, K, n)
                 /\ Whole(map, logs, window) => Whole(M, K, n)
                 /\ n # 0 => Counts(K)
                 /\ ToSet(M) \subseteq rows \cup pending \cup interrupted
      <3>1. Sound(map, logs, window) /\ (window # 0 => Counts(logs))
            /\ ToSet(map) \subseteq rows \cup pending \cup interrupted
        BY <2>2 DEF DedupInv, Honest
      <3>2. /\ Sound(setMaxSize(map, n), logs, n)
            /\ Whole(map, logs, window) => Whole(setMaxSize(map, n), logs, n)
        BY <1>3, <1>4, <2>1, <3>1, ShrinkKeeps
      <3>3. Sound(M, logs, n) /\ (Whole(map, logs, window) => Whole(M, logs, n))
        BY <3>2 DEF M
      <3>4. /\ Sound(M, rotateAndDropIfNeeded(logs, n), n)
            /\ Whole(M, logs, n) => Whole(M, rotateAndDropIfNeeded(logs, n), n)
            /\ Counts(logs) => Counts(rotateAndDropIfNeeded(logs, n))
        BY <1>3, <1>4, <1>6, <3>3, RotateKeeps
      <3>5. n # 0 => window # 0
        BY <1>3, <1>4, <2>1
      <3>6. ToSet(M) \subseteq ToSet(map)
        BY <1>3, <1>5, <1>6, EndsContent
      <3> QED
        BY <3>1, <3>3, <3>4, <3>5, <3>6 DEF K
    <2>3. Honest'
      BY <1>1, <2>1, <2>2 DEF Honest
    <2>4. Complete'
      BY <1>1, <2>1, <2>2 DEF Complete, DedupInv
    <2> QED
      BY <1>9, <2>3, <2>4 DEF DedupInv
  <1> QED
    BY <1>10, <1>11

(* A crash that tears the end of the last file.                            *)
Torn(L) == [L EXCEPT ![Len(L)].torn = Len(L[Len(L)].records)]

LEMMA TornTyped ==
    ASSUME NEW L \in Seq(LogFiles), L # <<>>, Last(L).torn = NotTorn
    PROVE  /\ Torn(L) \in Seq(LogFiles) /\ Len(Torn(L)) = Len(L) /\ Torn(L) # <<>>
           /\ \A i \in 1..Len(L) :
                  Readable(Torn(L)[i]) = Readable(L[i]) /\ Torn(L)[i].count = L[i].count
           /\ Counts(L) => Counts(Torn(L))
  <1> DEFINE K == Torn(L)
             N == Len(L)
             f == L[N]
             t == Len(f.records)
             h == [f EXCEPT !.torn = t]
  <1>1. N \in 1..N /\ N \in Nat /\ f \in LogFiles /\ f.torn = NotTorn
    BY DEF Last
  <1>2. f.records \in Seq(Records) /\ t \in Nat /\ f.count \in Nat
    BY <1>1 DEF LogFiles
  <1>3. h.records = f.records /\ h.torn = t /\ h.count = f.count
    BY <1>1 DEF LogFiles
  <1>4. h \in LogFiles
    <2>1. h \in [records : Seq(Records), count : Nat, torn : {NotTorn} \cup Nat]
      BY <1>1, <1>2 DEF LogFiles
    <2> HIDE DEF h
    <2> QED
      BY <1>2, <1>3, <2>1 DEF LogFiles
  <1>5. K = [L EXCEPT ![N] = h]
    BY DEF Torn
  <1>6. Readable(h) = Readable(f)
    <2>1. t # NotTorn
      BY <1>2 DEF NotTorn
    <2>2. Readable(h) = SubSeq(f.records, 1, t) /\ Readable(f) = f.records
      BY <1>1, <1>3, <2>1 DEF Readable
    <2>3. SubSeq(f.records, 1, Len(f.records)) = f.records
      BY <1>2
    <2> QED
      BY <2>2, <2>3
  <1> HIDE DEF h, K
  <1>7. /\ K \in Seq(LogFiles) /\ Len(K) = N /\ K # <<>>
        /\ \A i \in 1..N : K[i] = IF i = N THEN h ELSE L[i]
    BY <1>1, <1>4, <1>5
  <1>8. \A i \in 1..N : Readable(K[i]) = Readable(L[i]) /\ K[i].count = L[i].count
    BY <1>3, <1>6, <1>7
  <1>9. Counts(L) => Counts(K)
    <2> SUFFICES ASSUME Counts(L), NEW i \in 1..N
                 PROVE  \/ K[i].torn = NotTorn /\ K[i].count = Len(K[i].records)
                        \/ K[i].torn = Len(K[i].records) /\ K[i].count <= Len(K[i].records)
      BY <1>7 DEF Counts
    <2>1. \/ L[i].torn = NotTorn /\ L[i].count = Len(L[i].records)
          \/ L[i].torn = Len(L[i].records) /\ L[i].count <= Len(L[i].records)
      BY DEF Counts
    <2>2. CASE i # N
      BY <1>7, <2>1, <2>2
    <2>3. CASE i = N
      <3>1. K[i].torn = t /\ K[i].records = f.records /\ K[i].count = f.count
        BY <1>3, <1>7, <2>3
      <3>2. f.count = t
        BY <1>1, <1>2, <2>1, <2>3 DEF NotTorn
      <3> QED
        BY <1>2, <3>1, <3>2
    <2> QED
      BY <2>2, <2>3
  <1> QED
    BY <1>7, <1>8, <1>9 DEF K

LEMMA CrashKeeps ==
    ASSUME DedupInv, Crash
    PROVE  DedupInv'
  <1>1. /\ UNCHANGED <<window, map, increment, rows, append, events, inserts, restarts, failures,
                       changes>>
        /\ up' = FALSE /\ interrupted' = interrupted \cup pending /\ pending' = {}
        /\ restarts < MaxRestarts
    BY DEF Crash, NoInsert, budget
  <1>2. Typed
    BY DEF DedupInv
  <1>3. window \in Nat /\ logs \in Seq(LogFiles) /\ (window # 0 => logs # <<>>)
    BY <1>2, TypedLog
  <1>4. CASE UNCHANGED logs
    <2>1. Typed'
      BY <1>1, <1>2, <1>4 DEF Typed
    <2> QED
      BY <1>1, <1>4, <2>1, SameLog
  <1>5. CASE window # 0 /\ Last(logs).torn = NotTorn
             /\ logs' = [logs EXCEPT ![Len(logs)].torn = Len(logs[Len(logs)].records)]
    <2>1. /\ logs' \in Seq(LogFiles) /\ Len(logs') = Len(logs) /\ logs' # <<>>
          /\ \A i \in 1..Len(logs) :
                 Readable(logs'[i]) = Readable(logs[i]) /\ logs'[i].count = logs[i].count
          /\ Counts(logs) => Counts(logs')
      <3>1. logs' = Torn(logs)
        BY <1>5 DEF Torn
      <3> QED
        BY <1>3, <1>5, <3>1, TornTyped
    <2>2. Typed'
      BY <1>1, <1>2, <2>1 DEF Typed, Files
    <2>3. \A i \in 1..Len(logs) : logs'[i].count <= logs[i].count
      <3>1. \A i \in 1..Len(logs) : logs[i].count \in Nat
        BY <1>3 DEF LogFiles
      <3> QED
        BY <2>1, <3>1
    <2>4. Sound(map, logs, window) =>
              Sound(map, logs', window) /\ (Whole(map, logs, window) => Whole(map, logs', window))
      BY <1>3, <2>1, <2>3, SameKeeps
    <2>5. Honest'
      BY <1>1, <2>1, <2>4 DEF DedupInv, Honest
    <2>6. Complete'
      BY <1>1, <2>4 DEF DedupInv, Honest, Complete
    <2> QED
      BY <2>2, <2>5, <2>6 DEF DedupInv
  <1> QED
    BY <1>4, <1>5 DEF Crash

(* What a restart counts.                                                  *)
LEMMA CountedTyped ==
    ASSUME NEW L \in Seq(LogFiles), NEW n \in Nat
    PROVE  /\ Counted(L, n) \in Seq(LogFiles) /\ Len(Counted(L, n)) = Len(L)
           /\ \A i \in 1..Len(L) : Readable(Counted(L, n)[i]) = Readable(L[i])
           /\ Counts(L) => \A i \in 1..Len(L) : Counted(L, n)[i].count <= L[i].count
           /\ Counts(L) /\ n # 0 => Counts(Counted(L, n))
  <1> DEFINE N == Len(L)
             c(i) == IF n = 0 \/ L[i].torn # NotTorn THEN 0 ELSE Len(L[i].records)
             h(i) == [L[i] EXCEPT !.count = c(i)]
             K == Counted(L, n)
  <1>1. N \in Nat /\ \A i \in 1..N : L[i] \in LogFiles
    OBVIOUS
  <1>2. \A i \in 1..N : L[i].records \in Seq(Records) /\ L[i].count \in Nat
    BY <1>1 DEF LogFiles
  <1>3. \A i \in 1..N : c(i) \in Nat
    BY <1>2
  <1>4. \A i \in 1..N : h(i).records = L[i].records /\ h(i).torn = L[i].torn /\ h(i).count = c(i)
    BY <1>1 DEF LogFiles
  <1>5. \A i \in 1..N : h(i) \in LogFiles
    <2> SUFFICES ASSUME NEW i \in 1..N PROVE h(i) \in LogFiles
      OBVIOUS
    <2>1. L[i] \in LogFiles /\ c(i) \in Nat
      BY <1>1, <1>3
    <2> HIDE DEF c
    <2>2. h(i) \in [records : Seq(Records), count : Nat, torn : {NotTorn} \cup Nat]
      BY <2>1 DEF LogFiles
    <2>3. h(i).torn <= Len(h(i).records)
      BY <1>4, <2>1 DEF LogFiles
    <2> QED
      BY <2>2, <2>3 DEF LogFiles
  <1>6. K = [i \in 1..N |-> h(i)]
    BY DEF Counted
  <1> HIDE DEF h, K
  <1>7. K \in Seq(LogFiles) /\ Len(K) = N /\ \A i \in 1..N : K[i] = h(i)
    <2>1. K \in [1..N -> LogFiles]
      BY <1>5, <1>6
    <2> QED
      BY <1>1, <1>6, <2>1
  <1>8. \A i \in 1..N : Readable(K[i]) = Readable(L[i])
    BY <1>4, <1>7 DEF Readable
  <1>9. Counts(L) => \A i \in 1..N : K[i].count <= L[i].count
    <2> SUFFICES ASSUME Counts(L), NEW i \in 1..N PROVE K[i].count <= L[i].count
      OBVIOUS
    <2>1. K[i].count = c(i) /\ L[i].count \in Nat
      BY <1>2, <1>4, <1>7
    <2>2. L[i].torn = NotTorn => L[i].count = Len(L[i].records)
      <3>1. \/ L[i].torn = NotTorn /\ L[i].count = Len(L[i].records)
            \/ L[i].torn = Len(L[i].records) /\ L[i].count <= Len(L[i].records)
        BY DEF Counts
      <3>2. Len(L[i].records) # NotTorn
        BY <1>2 DEF NotTorn
      <3> QED
        BY <3>1, <3>2
    <2> QED
      BY <2>1, <2>2
  <1>10. ASSUME Counts(L), n # 0 PROVE Counts(K)
    <2> SUFFICES ASSUME NEW i \in 1..N
                 PROVE  \/ K[i].torn = NotTorn /\ K[i].count = Len(K[i].records)
                        \/ K[i].torn = Len(K[i].records) /\ K[i].count <= Len(K[i].records)
      BY <1>7 DEF Counts
    <2>1. \/ L[i].torn = NotTorn /\ L[i].count = Len(L[i].records)
          \/ L[i].torn = Len(L[i].records) /\ L[i].count <= Len(L[i].records)
      BY <1>10 DEF Counts
    <2>2. K[i].torn = L[i].torn /\ K[i].records = L[i].records /\ K[i].count = c(i)
      BY <1>4, <1>7
    <2>3. Len(L[i].records) \in Nat
      BY <1>2
    <2> HIDE DEF N
    <2> QED
      BY <1>10, <2>1, <2>2, <2>3
  <1> QED
    BY <1>7, <1>8, <1>9, <1>10 DEF K

LEMMA LoadKeeps ==
    ASSUME DedupInv, load
    PROVE  DedupInv'
  <1> DEFINE C == Counted(logs, window)
             M == Replay(logs, window)
  <1>1. /\ map' = M /\ up' = TRUE /\ restarts' = restarts + 1
        /\ logs' = IF window = 0 THEN Counted(logs, 0) ELSE rotateAndDropIfNeeded(C, window)
        /\ UNCHANGED <<window, pending, rows, interrupted, append, events, inserts, failures,
                       changes>>
    BY DEF load
  <1>2. increment' \in 0..increment
    BY DEF load
  <1>3. Typed
    BY DEF DedupInv
  <1>4. window \in Nat /\ map \in Maps(window) /\ map \in Seq(Entries) /\ logs \in Seq(LogFiles)
        /\ (window # 0 => logs # <<>>)
    BY <1>3, TypedLog
  <1>5. M \in Maps(window)
    BY <1>4, ReplayTyped
  <1>6. M \in Seq(Entries)
    BY <1>5 DEF Maps
  <1>7. /\ C \in Seq(LogFiles) /\ Len(C) = Len(logs)
        /\ \A i \in 1..Len(logs) : Readable(C[i]) = Readable(logs[i])
        /\ Counts(logs) => \A i \in 1..Len(logs) : C[i].count <= logs[i].count
        /\ Counts(logs) /\ window # 0 => Counts(C)
    BY <1>4, CountedTyped
  <1>8. Counted(logs, 0) \in Seq(LogFiles)
    BY <1>4, CountedTyped
  <1>9. Files(logs', window)
    <2>1. CASE window = 0
      BY <1>1, <1>8, <2>1 DEF Files
    <2>2. CASE window # 0
      <3>1. Files(rotateAndDropIfNeeded(C, window), window)
        BY <1>4, <1>7, RotateFiles
      <3> QED
        BY <1>1, <2>2, <3>1
    <2> QED
      BY <2>1, <2>2
  <1> HIDE DEF C, M

  <1>10. restarts + 1 \in 0..MaxRestarts
    BY <1>3, DedupAssumption DEF Typed, load
  <1>11. increment' \in 0..MaxNumber
    BY <1>2, <1>3, DedupAssumption DEF Typed
  <1>12. map' \in Maps(window')
    BY <1>1, <1>5
  <1>13. Typed'
    BY <1>1, <1>3, <1>9, <1>10, <1>11, <1>12 DEF Typed
  <1>14. CASE window = 0
    <2>1. map' = <<>> /\ window' = 0
      BY <1>1, <1>5, <1>14 DEF Maps
    <2>2. Sound(map', logs', 0) /\ Whole(map', logs', 0)
      BY DEF Sound, Whole
    <2>3. ToSet(map') = {}
      BY <2>1 DEF ToSet
    <2> QED
      BY <1>1, <1>13, <2>1, <2>2, <2>3 DEF DedupInv, Honest, Complete
  <1>15. CASE window # 0
    <2>1. ASSUME events \subseteq {"dropped"}
          PROVE  /\ Sound(M, logs', window)
                 /\ Counts(logs')
                 /\ ToSet(M) \subseteq ToSet(map)
                 /\ Whole(map, logs, window) => Whole(M, logs', window)
      <3>1. Sound(map, logs, window) /\ Counts(logs)
        BY <1>15, <2>1 DEF DedupInv, Honest
      <3>2. /\ Sound(Replay(logs, window), logs, window)
            /\ Whole(map, logs, window) => Whole(Replay(logs, window), logs, window)
            /\ EndsWith(Replay(logs, window), map)
        BY <1>4, <1>15, <3>1, RestartKeeps
      <3>3. /\ Sound(M, logs, window) /\ EndsWith(M, map)
            /\ Whole(map, logs, window) => Whole(M, logs, window)
        BY <3>2 DEF M
      <3>4. /\ Sound(M, C, window)
            /\ (\A i \in 1..Len(logs) : C[i].count <= logs[i].count) /\ Whole(M, logs, window)
                   => Whole(M, C, window)
        BY <1>4, <1>7, <3>3, SameKeeps
      <3>5. /\ Sound(M, rotateAndDropIfNeeded(C, window), window)
            /\ Whole(M, C, window) => Whole(M, rotateAndDropIfNeeded(C, window), window)
            /\ Counts(C) => Counts(rotateAndDropIfNeeded(C, window))
        BY <1>4, <1>6, <1>7, <3>4, RotateKeeps
      <3>6. ToSet(M) \subseteq ToSet(map)
        BY <1>4, <1>6, <3>3, EndsContent
      <3> QED
        BY <1>1, <1>7, <1>15, <3>1, <3>3, <3>4, <3>5, <3>6
    <2>2. Honest'
      BY <1>1, <2>1 DEF DedupInv, Honest
    <2>3. Complete'
      BY <1>1, <2>1 DEF DedupInv, Complete
    <2> QED
      BY <1>13, <2>2, <2>3 DEF DedupInv
  <1> QED
    BY <1>14, <1>15

LEMMA InitIInv == DedupInit => DedupInv
  <1> SUFFICES ASSUME DedupInit PROVE DedupInv
    OBVIOUS
  <1> DEFINE K == rotateAndDropIfNeeded(<<>>, window)
  <1>1. /\ window \in Windows /\ append \in Appends /\ map = <<>> /\ logs = K
        /\ pending = {} /\ increment = 0 /\ rows = {} /\ interrupted = {}
        /\ events = {} /\ up = TRUE
        /\ inserts = 0 /\ restarts = 0 /\ failures = 0 /\ changes = 0
    BY DEF DedupInit, NoInsert
  <1>2. window \in Nat
    BY <1>1, DedupAssumption
  <1>3. <<>> \in Seq(LogFiles) /\ <<>> \in Seq(Entries)
    OBVIOUS
  <1>4. Files(K, window)
    BY <1>2, <1>3, RotateFiles
  <1> HIDE DEF K
  <1>5. map \in Maps(window)
    BY <1>1, <1>2 DEF Maps, Different
  <1>6. Typed
    BY <1>1, <1>4, <1>5, DedupAssumption DEF Typed
  <1>7. \A k \in 0..Len(<<>>), n \in 1..window : k = 0 /\ Replay(Since(<<>>, k), n) = <<>>
    <2>1. Since(<<>>, 0) = <<>>
      BY <1>3, SinceStart
    <2>2. \A n \in 1..window : Replay(<<>>, n) = <<>>
      BY <1>2, ReplayEmpty
    <2> QED
      BY <2>1, <2>2
  <1>8. Sound(<<>>, <<>>, window)
    BY <1>3, <1>7, EndsItself DEF Sound
  <1>9. Counts(<<>>)
    BY DEF Counts
  <1>10. Whole(<<>>, <<>>, window)
    <2>1. NewerRecords(<<>>, 0) = 0
      <3>1. 0 \in 0..Len(<<>>) /\ 0 = Len(<<>>)
        OBVIOUS
      <3> QED
        BY <1>3, <3>1, NewerTyped
    <2>2. \A n \in 1..window : Replay(<<>>, n) = <<>>
      BY <1>2, ReplayEmpty
    <2> QED
      BY <1>2, <1>7, <2>1, <2>2 DEF Whole
  <1>11. Sound(<<>>, K, window) /\ Whole(<<>>, K, window) /\ Counts(K)
    BY <1>2, <1>3, <1>8, <1>9, <1>10, RotateKeeps DEF K
  <1>12. Honest
    BY <1>1, <1>11 DEF Honest, ToSet
  <1>13. Complete
    BY <1>1, <1>11 DEF Complete
  <1> QED
    BY <1>6, <1>12, <1>13 DEF DedupInv

(* From any state of the invariant every step leads to another one.        *)
LEMMA NextIInv == DedupInv /\ [DedupNext]_dedupVars => DedupInv'
  <1> SUFFICES ASSUME DedupInv, [DedupNext]_dedupVars PROVE DedupInv'
    OBVIOUS
  <1>1. ASSUME NEW ids \in Batches, addPart(ids) \/ addPartDuplicate(ids) PROVE DedupInv'
    BY <1>1, AddPartKeeps, AddPartDuplicateKeeps
  <1>2. CASE commitPart \/ commitPartThrows
    BY <1>2, CommitPartKeeps, CommitPartThrowsKeeps
  <1>3. ASSUME NEW lo \in 1..MaxNumber, NEW hi \in 1..MaxNumber, dropPart(lo, hi) PROVE DedupInv'
    BY <1>3, DropPartKeeps
  <1>4. ASSUME NEW n \in Windows, setDeduplicationWindowSize(n) PROVE DedupInv'
    BY <1>4, SetWindowKeeps
  <1>5. CASE shutdown \/ Crash \/ load
    BY <1>5, ShutdownKeeps, CrashKeeps, LoadKeeps
  <1>6. CASE UNCHANGED dedupVars
    <2>1. Typed'
      BY <1>6 DEF DedupInv, Typed, dedupVars, budget
    <2> QED
      BY <1>6, <2>1, SameLog DEF dedupVars
  <1> QED
    BY <1>1, <1>2, <1>3, <1>4, <1>5, <1>6 DEF DedupNext

(***************************************************************************)
(* Theorems                                                                *)
(***************************************************************************)
LEMMA Invariance == DedupSpec => []DedupInv
  BY InitIInv, NextIInv, PTL DEF DedupSpec

LEMMA DedupInvTypeOK == DedupInv => DedupTypeOK
  <1> SUFFICES ASSUME DedupInv PROVE DedupTypeOK
    OBVIOUS
  <1>1. Typed
    BY DEF DedupInv
  <1>2. map \in Seq(Entries) /\ Len(map) <= window
        /\ \A i, j \in DOMAIN map : i = j \/ map[i].id # map[j].id
    BY <1>1 DEF Typed, Maps, Different
  <1>3. \A i \in DOMAIN logs : logs[i].records \in Seq(Records) /\ logs[i].count \in Nat
                            /\ logs[i].torn \in {NotTorn} \cup Nat
    <2>1. logs \in Seq(LogFiles)
      BY <1>1 DEF Typed, Files
    <2>2. \A i \in DOMAIN logs : logs[i] \in LogFiles
      BY <2>1
    <2> QED
      BY <2>2 DEF LogFiles
  <1> QED
    BY <1>1, <1>2, <1>3 DEF Typed, DedupTypeOK

(* The map never holds more entries than the window nor an id twice, and   *)
(* every file is a sequence of records with its count.                     *)
THEOREM DedupTypeCorrect == DedupSpec => []DedupTypeOK
  BY Invariance, DedupInvTypeOK, PTL

(* What a restart would load, seen from the invariant.                     *)
LEMMA ReplayIsEnd ==
    ASSUME DedupInv, events \subseteq {"dropped"}
    PROVE  /\ map \in Seq(Entries) /\ Replay(logs, window) \in Seq(Entries)
           /\ EndsWith(Replay(logs, window), map)
  <1>1. window \in Nat /\ map \in Maps(window) /\ map \in Seq(Entries) /\ logs \in Seq(LogFiles)
    BY TypedLog DEF DedupInv
  <1>2. Replay(logs, window) \in Seq(Entries)
    BY <1>1, ReplayTyped DEF Maps
  <1>3. CASE window = 0
    BY <1>1, <1>2, <1>3, EndsEmpty DEF Replay
  <1>4. CASE window # 0
    <2>1. Since(logs, 0) = logs
      BY <1>1, SinceStart
    <2>2. 0 \in 0..Len(logs) /\ window \in 1..window
      BY <1>1, <1>4
    <2>3. EndsWith(Replay(Since(logs, 0), window), map)
      BY <2>2 DEF DedupInv, Honest, Sound
    <2> QED
      BY <1>1, <1>2, <2>1, <2>3
  <1> QED
    BY <1>3, <1>4

(* Whatever inserts, drops, failed commits, smaller windows, rotations,    *)
(* crashes with torn writes and restarts happened, what a restart loads is *)
(* the end of the map: no block that is accepted now is refused after it.  *)
THEOREM RestartRefuses == DedupSpec => []RestartRefusesNoMore
  <1>1. DedupInv => RestartRefusesNoMore
    BY ReplayIsEnd, EndsIsSuffix DEF RestartRefusesNoMore
  <1> QED
    BY <1>1, Invariance, PTL

(* A refused block is in the table, or its insert is between addPart and   *)
(* the commit or was interrupted there; no dropped part is remembered.     *)
THEOREM RefusedInTable == DedupSpec => []RefusedAreInTable
  <1>1. DedupInv => RefusedAreInTable
    <2> SUFFICES ASSUME DedupInv, events \subseteq {"dropped"}
                 PROVE  Refusing \subseteq rows \cup pending \cup interrupted
      BY DEF RefusedAreInTable, DroppedAreForgotten
    <2>1. ToSet(Replay(logs, window)) \subseteq ToSet(map)
      BY ReplayIsEnd, EndsContent
    <2> QED
      BY <2>1 DEF DedupInv, Honest, Refusing
  <1> QED
    BY <1>1, Invariance, PTL

(* Until something is dropped, the files that dropOutdatedLogs leaves hold *)
(* the whole map, however often the log was rotated or restarted.          *)
THEOREM RotationForgets == DedupSpec => []RotationForgetsNothing
  <1>1. DedupInv => RotationForgetsNothing
    <2> SUFFICES ASSUME DedupInv, events = {} PROVE Replay(logs, window) = map
      BY DEF RotationForgetsNothing
    <2>1. /\ map \in Seq(Entries) /\ Replay(logs, window) \in Seq(Entries)
          /\ EndsWith(Replay(logs, window), map)
      BY ReplayIsEnd
    <2>2. window \in Nat /\ map \in Maps(window)
      BY TypedLog DEF DedupInv
    <2>3. Len(map) <= Len(Replay(logs, window))
      <3>1. CASE window = 0
        BY <2>1, <2>2, <3>1 DEF Maps
      <3>2. CASE window # 0
        <4>1. window \in 1..window
          BY <2>2, <3>2
        <4>2. \/ Len(Replay(logs, window)) >= window
              \/ Len(Replay(logs, window)) >= Len(map)
          BY <4>1 DEF DedupInv, Complete, Whole
        <4>3. Len(map) <= window /\ Len(map) \in Nat /\ Len(Replay(logs, window)) \in Nat
          BY <2>1, <2>2 DEF Maps
        <4> QED
          BY <2>2, <4>2, <4>3
      <3> QED
        BY <3>1, <3>2
    <2> QED
      BY <2>1, <2>3, EndsWhole
  <1> QED
    BY <1>1, Invariance, PTL

(***************************************************************************)
(* PART TWO: the replicated insert                                         *)
(* Types.  A part is any number with an insert: a fresh insert has the     *)
(* number 0 even if no block number may be handed out.                     *)
(***************************************************************************)
AnyPart == [number : Nat, insert : Inserts]

Stages == {"start", "lock", "locked", "sent", "resolve", "verify", "recover", "quorum", "active", "done"}

AnswerKinds == {"none", "session", "cancelled", "quorum", "inactive", "duplicate", "ok", "exists", "missing"}
Results == {"none", "ok", "deduplicated", "error", "unknown"}

InsertStates ==
    [stage : Stages, replica : Replicas, content : Contents, host : Nat, session : Nat, number : Nat,
     answer : AnswerKinds,
     await : SUBSET AnyPart, result : Results]

TypeOK ==
    /\ next_number \in Nat
    /\ log \in SUBSET AnyPart /\ failed \in SUBSET AnyPart
    /\ blocks \in [Contents -> SUBSET AnyPart]
    /\ zk_parts \in [Replicas -> SUBSET AnyPart]
    /\ quorum \in SUBSET [part : AnyPart, replicas : SUBSET Replicas]
    /\ is_active \in [Replicas -> Nat] /\ host \in [Replicas -> Nat]
    /\ requests \in SUBSET [part : AnyPart, session : Nat]
    /\ session \in [Replicas -> Nat] /\ expired \in [Replicas -> BOOLEAN]
    /\ restarting \in [Replicas -> {"up", "readonly", "stopped", "connected", "cleaned", "active"}]
    /\ DOMAIN local = Replicas
    /\ \A r \in Replicas : DOMAIN local[r] \in SUBSET AnyPart
    /\ to_check \in [Replicas -> SUBSET AnyPart]
    /\ insert \in [Inserts -> InsertStates]
    /\ with_quorum \in BOOLEAN

(***************************************************************************)
(* The inductive invariant                                                 *)
(***************************************************************************)

(* Nothing has the number of a part that is not sent yet.                  *)
FreshNumbers ==
    /\ \A p \in log : p.number < next_number /\ insert[p.insert].stage # "start"
    /\ \A m \in requests : m.part.number < next_number /\ insert[m.part.insert].stage # "start"
    /\ \A i \in Inserts : insert[i].stage = "locked" =>
          /\ insert[i].number < next_number
          /\ Part(i) \notin log
          /\ \A m \in requests : m.part # Part(i)

(* A server that is stopped has lost its session and ended its inserts.    *)
(* What has a lock of the current session, or sent a request in it, is at  *)
(* a replica that is up.                                                   *)
Sessions ==
    /\ \A r \in Replicas : restarting[r] = "stopped" =>
          expired[r] /\ \A i \in Inserts : R(i) = r => insert[i].stage = "done"
    /\ \A i \in Inserts :
          /\ insert[i].session <= session[R(i)]
          /\ insert[i].stage = "locked" /\ Connected(R(i)) /\ insert[i].session = session[R(i)] =>
                restarting[R(i)] = "up"
          /\ insert[i].stage = "sent" =>
                Connected(R(i)) /\ restarting[R(i)] = "up" /\ insert[i].session = session[R(i)]
          /\ insert[i].stage = "verify" /\ Connected(R(i)) => insert[i].session < session[R(i)]
          /\ insert[i].stage = "recover" => insert[i].session < session[R(i)]

(* A request is sent once.  Once it can be executed no more nobody waits   *)
(* for it, and as long as it can the part is in the working set.           *)
Requests ==
    /\ \A m, n \in requests : m.part = n.part => m = n
    /\ \A m \in requests :
          LET i == m.part.insert IN
          /\ m.part \notin log
          /\ m.session <= session[R(i)]
          /\ m.part = Part(i) => m.session = insert[i].session
          /\ m.session = session[R(i)] => m.part \in DOMAIN local[R(i)]
          /\ m.session = session[R(i)] /\ Connected(R(i)) =>
                insert[i].stage = "sent" /\ Part(i) = m.part /\ insert[i].answer = "none"

(* What an insert knows of its part.                                       *)
Answers ==
    \A i \in Inserts :
        /\ insert[i].stage = "locked" => insert[i].answer = "none"
        /\ insert[i].stage \in {"sent", "verify", "recover"} =>
              Part(i) \in DOMAIN local[R(i)] \cup failed
        /\ insert[i].stage = "sent" =>
              IF insert[i].answer = "ok" THEN Part(i) \in zk_parts[R(i)] ELSE Part(i) \notin log
        /\ insert[i].stage = "recover" =>
              \/ insert[i].answer = "exists" /\ Part(i) \in zk_parts[R(i)] \cup failed
              \/ insert[i].answer = "missing" /\ Part(i) \notin zk_parts[R(i)]

(* ZooKeeper and the working sets.                                         *)
Kept ==
    /\ \A r \in Replicas : zk_parts[r] \subseteq log \cap DOMAIN local[r]
    /\ \A r \in Replicas : \A p \in to_check[r] : r = R(p.insert) /\ insert[p.insert].stage = "done"
    /\ \A r \in Replicas : restarting[r] # "stopped" =>
          \A p \in DOMAIN local[r] : local[r][p] = "Active" => p \in zk_parts[r] \cup to_check[r]
    /\ \A p \in log \ failed : p \in zk_parts[R(p.insert)]

Holders(p) == {r \in Replicas : p \in zk_parts[r]}

(* The status of a quorum goes when the quorum is reached or has failed,   *)
(* and it fails only when the replica of the insert is not active.         *)
Quorums ==
    /\ failed \subseteq log
    /\ ~with_quorum => quorum = {} /\ failed = {}
    /\ \A q \in quorum : q.part \in log \ failed /\ q.replicas \subseteq Holders(q.part)
    /\ \A q, s \in quorum : q = s
    /\ with_quorum => \A p \in log \ failed : p \in InQuorum \/ Cardinality(Holders(p)) >= QuorumSize

Hosts ==
    /\ \A i \in Inserts : insert[i].host <= host[R(i)]
    /\ \A p \in failed : is_active[R(p.insert)] = 0 \/ insert[p.insert].host < host[R(p.insert)]

(* An insert that is about to succeed.                                     *)
Succeeding ==
    \A i \in Inserts : insert[i].result = "ok" =>
        /\ insert[i].stage \in {"quorum", "active", "done"}
        /\ Part(i) \in log
        /\ insert[i].stage # "done" => insert[i].await = {Part(i)}
        /\ insert[i].stage = "active" => Part(i) \notin InQuorum
        /\ insert[i].stage = "done" /\ with_quorum => Part(i) \notin InQuorum \cup failed

(* Block ids.                                                              *)
BlockNodes ==
    /\ \A c \in Contents : \A p \in blocks[c] : p \in log /\ Content(p) = c
    /\ ~with_quorum => \A p \in log : blocks[Content(p)] = {p}
    /\ ~with_quorum => \A i \in Inserts :
          \/ insert[i].stage = "resolve" \/ insert[i].result = "deduplicated"
          \/ insert[i].stage = "sent" /\ insert[i].answer = "duplicate"
          => blocks[insert[i].content] # {}

IInv ==
    /\ TypeOK /\ FreshNumbers /\ Sessions /\ Requests /\ Answers /\ Kept /\ Quorums /\ Hosts
    /\ Succeeding /\ BlockNodes

(* What the steps of an insert, of a replica and of its faults leave alone. *)
LEMMA InsertFrame ==
    ASSUME NEW i, InsertStep(i)
    PROVE  /\ \/ allocateBlockNumber(i)
              \/ UNCHANGED keeper
           /\ sendCommit(i) \/ UNCHANGED requests
           /\ UNCHANGED <<log, blocks, zk_parts, quorum, failed, is_active, host, session, expired, restarting,
                          with_quorum>>
           /\ lastRetry(i) \/ UNCHANGED to_check
           /\ sendCommit(i) \/ receiveAnswer(i) \/ recover(i) \/ lastRetry(i) \/ UNCHANGED local
  BY DEF InsertStep, keeper, server, allocateBlockNumber, sendCommit, lastRetry, checkQuorumPrecondition,
         receiveAnswer, resolveDuplicate, lookForPart, recover, giveUp, waitForQuorum, stillActive, retryQuorum,
         giveUpQuorum

LEMMA ReplicaFrame ==
    ASSUME NEW r, ReplicaStep(r)
    PROVE  /\ UNCHANGED <<next_number, log, requests, insert, with_quorum>>
           /\ \/ removeFailedQuorumParts(r)
              \/ \E p \in log : fetchPart(r, p)
              \/ UNCHANGED zk_parts
           /\ \/ removeFailedQuorumParts(r)
              \/ \E p \in log : fetchPart(r, p)
              \/ \E p \in to_check[r] : checkPart(r, p)
              \/ UNCHANGED <<local, to_check>>
           /\ \/ updateQuorumIfWeHavePart(r)
              \/ \E p \in log : updateQuorum(r, p) \/ failQuorum(r, p)
              \/ UNCHANGED <<quorum, failed, blocks>>
           /\ activateReplica(r) \/ UNCHANGED <<is_active, host>>
           /\ setZooKeeper(r) \/ UNCHANGED <<session, expired>>
           /\ \/ partialShutdown(r) \/ setZooKeeper(r) \/ removeFailedQuorumParts(r)
              \/ activateReplica(r) \/ updateQuorumIfWeHavePart(r) \/ UNCHANGED restarting
  BY DEF ReplicaStep, keeper, server, partialShutdown, setZooKeeper, removeFailedQuorumParts, activateReplica,
         updateQuorumIfWeHavePart, checkPart, fetchPart, updateQuorum, failQuorum

LEMMA FaultFrame ==
    ASSUME NEW r, Fault(r)
    PROVE  /\ UNCHANGED <<next_number, log, blocks, quorum, failed, host, with_quorum>>
           /\ requests' \subseteq requests
           /\ startServer(r) \/ UNCHANGED zk_parts
           /\ (\E s \in 1..session[r] : expireSession(r, s)) \/ UNCHANGED <<is_active, requests>>
           /\ startServer(r) \/ crash(r) \/ UNCHANGED <<local, to_check>>
           /\ loseConnection(r) \/ crash(r) \/ UNCHANGED insert
  BY DEF Fault, keeper, server, loseConnection, crash, startServer, expireSession

LEMMA CommitFrame ==
    ASSUME NEW m, commitOps(m)
    PROVE  /\ UNCHANGED <<next_number, failed, is_active, host, session, expired, restarting, local, to_check,
                          with_quorum>>
           /\ requests' = requests \ {m}
  BY DEF commitOps, keeper, server

LEMMA AllSteps ==
    ASSUME [Next]_vars
    PROVE  \/ UNCHANGED vars
           \/ \E i \in Inserts : InsertStep(i)
           \/ \E m \in requests : commitOps(m)
           \/ \E r \in Replicas : ReplicaStep(r) \/ Fault(r)
  BY DEF Next
(* Insert i changes, the others do not.                                    *)
Record(i, stage, hst, sess, number, answer, await, result) ==
    [stage |-> stage, replica |-> insert[i].replica, content |-> insert[i].content, host |-> hst,
     session |-> sess, number |-> number, answer |-> answer, await |-> await, result |-> result]

Becomes(i, stage, hst, sess, number, answer, await, result) ==
    insert' = [insert EXCEPT ![i] = Record(i, stage, hst, sess, number, answer, await, result)]

Goes(i, stage) ==
    Becomes(i, stage, insert[i].host, insert[i].session, insert[i].number, insert[i].answer,
            insert[i].await, insert[i].result)

Ends(i, result) ==
    Becomes(i, "done", insert[i].host, insert[i].session, insert[i].number, insert[i].answer,
            insert[i].await, result)

Awaits(i, stage, p, result) ==
    Becomes(i, stage, insert[i].host, insert[i].session, insert[i].number, insert[i].answer, p, result)

(* The assignments to the fields of an insert that the actions make.       *)
LEMMA GoEffect ==
    ASSUME TypeOK, NEW i \in Inserts, NEW st, insert' = [insert EXCEPT ![i].stage = st]
    PROVE  Becomes(i, st, insert[i].host, insert[i].session, insert[i].number, insert[i].answer,
                   insert[i].await, insert[i].result)
  <1>1. insert[i] \in InsertStates
    BY DEF TypeOK
  <1>2. insert'[i] = Record(i, st, insert[i].host, insert[i].session, insert[i].number, insert[i].answer, insert[i].await, insert[i].result)
    BY <1>1 DEF Record, InsertStates, TypeOK
  <1>3. insert' = [insert EXCEPT ![i] = insert'[i]]
    BY DEF TypeOK
  <1> QED
    BY <1>2, <1>3 DEF Becomes

LEMMA EndEffect ==
    ASSUME TypeOK, NEW i \in Inserts, NEW st, NEW res,
           insert' = [insert EXCEPT ![i].stage = st, ![i].result = res]
    PROVE  Becomes(i, st, insert[i].host, insert[i].session, insert[i].number, insert[i].answer,
                   insert[i].await, res)
  <1>1. insert[i] \in InsertStates
    BY DEF TypeOK
  <1>2. insert'[i] = Record(i, st, insert[i].host, insert[i].session, insert[i].number, insert[i].answer, insert[i].await, res)
    BY <1>1 DEF Record, InsertStates, TypeOK
  <1>3. insert' = [insert EXCEPT ![i] = insert'[i]]
    BY DEF TypeOK
  <1> QED
    BY <1>2, <1>3 DEF Becomes

LEMMA AwaitEffect ==
    ASSUME TypeOK, NEW i \in Inserts, NEW st, NEW res, NEW ps,
           insert' = [insert EXCEPT ![i].result = res, ![i].await = ps, ![i].stage = st]
    PROVE  Becomes(i, st, insert[i].host, insert[i].session, insert[i].number, insert[i].answer, ps, res)
  <1>1. insert[i] \in InsertStates
    BY DEF TypeOK
  <1>2. insert'[i] = Record(i, st, insert[i].host, insert[i].session, insert[i].number, insert[i].answer, ps, res)
    BY <1>1 DEF Record, InsertStates, TypeOK
  <1>3. insert' = [insert EXCEPT ![i] = insert'[i]]
    BY DEF TypeOK
  <1> QED
    BY <1>2, <1>3 DEF Becomes

LEMMA LockEffect ==
    ASSUME TypeOK, NEW i \in Inserts, NEW st, NEW h,
           insert' = [insert EXCEPT ![i].stage = st, ![i].host = h]
    PROVE  Becomes(i, st, h, insert[i].session, insert[i].number, insert[i].answer, insert[i].await, insert[i].result)
  <1>1. insert[i] \in InsertStates
    BY DEF TypeOK
  <1>2. insert'[i] = Record(i, st, h, insert[i].session, insert[i].number, insert[i].answer, insert[i].await, insert[i].result)
    BY <1>1 DEF Record, InsertStates, TypeOK
  <1>3. insert' = [insert EXCEPT ![i] = insert'[i]]
    BY DEF TypeOK
  <1> QED
    BY <1>2, <1>3 DEF Becomes

LEMMA LookEffect ==
    ASSUME TypeOK, NEW i \in Inserts, NEW st, NEW a,
           insert' = [insert EXCEPT ![i].stage = st, ![i].answer = a]
    PROVE  Becomes(i, st, insert[i].host, insert[i].session, insert[i].number, a, insert[i].await, insert[i].result)
  <1>1. insert[i] \in InsertStates
    BY DEF TypeOK
  <1>2. insert'[i] = Record(i, st, insert[i].host, insert[i].session, insert[i].number, a, insert[i].await, insert[i].result)
    BY <1>1 DEF Record, InsertStates, TypeOK
  <1>3. insert' = [insert EXCEPT ![i] = insert'[i]]
    BY DEF TypeOK
  <1> QED
    BY <1>2, <1>3 DEF Becomes

LEMMA AnswerEffect ==
    ASSUME TypeOK, NEW i \in Inserts, NEW a,
           insert' = [insert EXCEPT ![i].answer = a]
    PROVE  Becomes(i, insert[i].stage, insert[i].host, insert[i].session, insert[i].number, a, insert[i].await, insert[i].result)
  <1>1. insert[i] \in InsertStates
    BY DEF TypeOK
  <1>2. insert'[i] = Record(i, insert[i].stage, insert[i].host, insert[i].session, insert[i].number, a, insert[i].await, insert[i].result)
    BY <1>1 DEF Record, InsertStates, TypeOK
  <1>3. insert' = [insert EXCEPT ![i] = insert'[i]]
    BY DEF TypeOK
  <1> QED
    BY <1>2, <1>3 DEF Becomes

LEMMA NumberEffect ==
    ASSUME TypeOK, NEW i \in Inserts, NEW st, NEW n, NEW s, NEW a,
           insert' = [insert EXCEPT ![i].stage = st, ![i].number = n,
                                   ![i].session = s, ![i].answer = a]
    PROVE  Becomes(i, st, insert[i].host, s, n, a, insert[i].await, insert[i].result)
  <1>1. insert[i] \in InsertStates
    BY DEF TypeOK
  <1>2. insert'[i] = Record(i, st, insert[i].host, s, n, a, insert[i].await, insert[i].result)
    BY <1>1 DEF Record, InsertStates, TypeOK
  <1>3. insert' = [insert EXCEPT ![i] = insert'[i]]
    BY DEF TypeOK
  <1> QED
    BY <1>2, <1>3 DEF Becomes

LEMMA BecomesAt ==
    ASSUME TypeOK, NEW i \in Inserts, NEW st, NEW h, NEW s, NEW n, NEW a, NEW w, NEW res,
           Becomes(i, st, h, s, n, a, w, res)
    PROVE  /\ insert'[i].stage = st /\ insert'[i].host = h /\ insert'[i].session = s
           /\ insert'[i].number = n /\ insert'[i].answer = a /\ insert'[i].await = w
           /\ insert'[i].result = res
           /\ insert'[i].replica = insert[i].replica /\ insert'[i].content = insert[i].content
           /\ \A j \in Inserts : j # i => insert'[j] = insert[j]
  BY DEF Becomes, Record, TypeOK

LEMMA BecomesTyped ==
    ASSUME TypeOK, NEW i \in Inserts, NEW st \in Stages, NEW h \in Nat, NEW s \in Nat, NEW n \in Nat,
           NEW a \in AnswerKinds,
           NEW w \in SUBSET AnyPart, NEW res \in Results,
           Becomes(i, st, h, s, n, a, w, res)
    PROVE  insert' \in [Inserts -> InsertStates]
  <1>1. insert[i] \in InsertStates
    BY DEF TypeOK
  <1>2. Record(i, st, h, s, n, a, w, res) \in InsertStates
    BY <1>1 DEF Record, InsertStates
  <1> QED
    BY <1>2 DEF Becomes, TypeOK

(* What the actions do to an insert.                                       *)
LEMMA InsertEffects ==
    ASSUME TypeOK, NEW i \in Inserts
    PROVE  /\ checkQuorumPrecondition(i) =>
                 Becomes(i, "lock", host[R(i)], insert[i].session, insert[i].number, insert[i].answer,
                         insert[i].await, insert[i].result)
           /\ allocateBlockNumber(i) =>
                 \/ blocks[insert[i].content] # {} /\ Goes(i, "resolve") /\ UNCHANGED next_number
                 \/ /\ next_number' = next_number + 1
                    /\ Becomes(i, "locked", insert[i].host, session[R(i)], next_number, "none",
                               insert[i].await, insert[i].result)
           /\ sendCommit(i) =>
                 \/ /\ Goes(i, "sent") /\ Connected(R(i)) /\ session[R(i)] = insert[i].session
                    /\ requests' = requests \cup {[part |-> Part(i), session |-> insert[i].session]}
                 \/ /\ Goes(i, "verify") /\ ~(Connected(R(i)) /\ session[R(i)] = insert[i].session)
                    /\ UNCHANGED requests
           /\ receiveAnswer(i) =>
                 \/ /\ insert[i].answer = "ok"
                    /\ Awaits(i, IF with_quorum THEN "quorum" ELSE "done", {Part(i)}, "ok")
                 \/ insert[i].answer = "duplicate" /\ Goes(i, "resolve")
                 \/ insert[i].answer \notin {"ok", "duplicate"} /\ Ends(i, "error")
           /\ resolveDuplicate(i) =>
                 Awaits(i, IF with_quorum /\ blocks[insert[i].content] # {} THEN "quorum" ELSE "done",
                        blocks[insert[i].content], "deduplicated")
           /\ lookForPart(i) =>
                 Becomes(i, "recover", insert[i].host, insert[i].session, insert[i].number,
                         IF Part(i) \in zk_parts[R(i)] THEN "exists" ELSE "missing",
                         insert[i].await, insert[i].result)
           /\ recover(i) =>
                 \/ Ends(i, "error")
                 \/ /\ Part(i) \notin failed /\ insert[i].answer = "exists"
                    /\ Awaits(i, IF with_quorum THEN "quorum" ELSE "done", {Part(i)}, "ok")
                 \/ Goes(i, "lock")
           /\ lastRetry(i) => Ends(i, "unknown")
           /\ giveUp(i) => Ends(i, "error")
           /\ waitForQuorum(i) => Goes(i, "active")
           /\ stillActive(i) =>
                 Ends(i, IF is_active[R(i)] # 0 /\ host[R(i)] = insert[i].host THEN insert[i].result ELSE "unknown")
           /\ retryQuorum(i) => Goes(i, "quorum")
           /\ giveUpQuorum(i) => Ends(i, "unknown")
  <1> USE DEF Goes, Ends, Awaits, Go, End, Await
  <1>1. checkQuorumPrecondition(i) =>
          Becomes(i, "lock", host[R(i)], insert[i].session, insert[i].number, insert[i].answer,
                  insert[i].await, insert[i].result)
    BY LockEffect DEF checkQuorumPrecondition
  <1>2. allocateBlockNumber(i) =>
          \/ blocks[insert[i].content] # {} /\ Goes(i, "resolve") /\ UNCHANGED next_number
          \/ /\ next_number' = next_number + 1
             /\ Becomes(i, "locked", insert[i].host, session[R(i)], next_number, "none",
                        insert[i].await, insert[i].result)
    BY GoEffect, NumberEffect DEF allocateBlockNumber, keeper
  <1>3. sendCommit(i) =>
          \/ /\ Goes(i, "sent") /\ Connected(R(i)) /\ session[R(i)] = insert[i].session
             /\ requests' = requests \cup {[part |-> Part(i), session |-> insert[i].session]}
          \/ /\ Goes(i, "verify") /\ ~(Connected(R(i)) /\ session[R(i)] = insert[i].session)
             /\ UNCHANGED requests
    BY GoEffect DEF sendCommit
  <1>4. receiveAnswer(i) =>
          \/ /\ insert[i].answer = "ok"
             /\ Awaits(i, IF with_quorum THEN "quorum" ELSE "done", {Part(i)}, "ok")
          \/ insert[i].answer = "duplicate" /\ Goes(i, "resolve")
          \/ insert[i].answer \notin {"ok", "duplicate"} /\ Ends(i, "error")
    BY GoEffect, EndEffect, AwaitEffect DEF receiveAnswer
  <1>5. resolveDuplicate(i) =>
          Awaits(i, IF with_quorum /\ blocks[insert[i].content] # {} THEN "quorum" ELSE "done",
                 blocks[insert[i].content], "deduplicated")
    BY AwaitEffect DEF resolveDuplicate
  <1>6. lookForPart(i) =>
          Becomes(i, "recover", insert[i].host, insert[i].session, insert[i].number,
                  IF Part(i) \in zk_parts[R(i)] THEN "exists" ELSE "missing",
                  insert[i].await, insert[i].result)
    BY LookEffect DEF lookForPart
  <1>7. recover(i) =>
          \/ Ends(i, "error")
          \/ /\ Part(i) \notin failed /\ insert[i].answer = "exists"
             /\ Awaits(i, IF with_quorum THEN "quorum" ELSE "done", {Part(i)}, "ok")
          \/ Goes(i, "lock")
    BY GoEffect, EndEffect, AwaitEffect DEF recover
  <1>8. lastRetry(i) \/ giveUpQuorum(i) => Ends(i, "unknown")
    BY EndEffect DEF lastRetry, giveUpQuorum
  <1>9. giveUp(i) => Ends(i, "error")
    BY EndEffect DEF giveUp
  <1>10. waitForQuorum(i) => Goes(i, "active")
    BY GoEffect DEF waitForQuorum
  <1>11. stillActive(i) =>
           Ends(i, IF is_active[R(i)] # 0 /\ host[R(i)] = insert[i].host THEN insert[i].result ELSE "unknown")
    BY EndEffect DEF stillActive
  <1>12. retryQuorum(i) => Goes(i, "quorum")
    BY GoEffect DEF retryQuorum
  <1> HIDE DEF Goes, Ends, Awaits, Go, End, Await
  <1> QED
    BY <1>1, <1>2, <1>3, <1>4, <1>5, <1>6, <1>7, <1>8, <1>9, <1>10, <1>11, <1>12

LEMMA CommitEffect ==
    ASSUME TypeOK, NEW m \in requests, commitOps(m)
    PROVE  /\ m.part \in AnyPart /\ m.part.insert \in Inserts
           /\ \/ UNCHANGED insert
              \/ LET i == m.part.insert IN
                 /\ insert[i].stage = "sent" /\ Part(i) = m.part
                 /\ Becomes(i, "sent", insert[i].host, insert[i].session, insert[i].number, Answer(m),
                            insert[i].await, insert[i].result)
           /\ \A j \in Inserts :
                 /\ insert'[j].stage = insert[j].stage /\ insert'[j].number = insert[j].number
                 /\ insert'[j].session = insert[j].session /\ insert'[j].host = insert[j].host
                 /\ insert'[j].await = insert[j].await /\ insert'[j].result = insert[j].result
                 /\ insert'[j].answer = IF insert[j].stage = "sent" /\ Part(j) = m.part
                                        THEN Answer(m) ELSE insert[j].answer
  <1>1. m.part \in AnyPart /\ m.part.insert \in Inserts
    BY DEF TypeOK, AnyPart
  <1>2. ASSUME NEW i \in Inserts, i = m.part.insert
        PROVE  IF insert[i].stage = "sent" /\ Part(i) = m.part
               THEN Becomes(i, "sent", insert[i].host, insert[i].session, insert[i].number, Answer(m),
                            insert[i].await, insert[i].result)
               ELSE UNCHANGED insert
    BY <1>2, AnswerEffect DEF commitOps
  <1>3. \A j \in Inserts : Part(j) = m.part => j = m.part.insert
    BY DEF Part
  <1>4. CASE UNCHANGED insert /\ ~(insert[m.part.insert].stage = "sent" /\ Part(m.part.insert) = m.part)
    BY <1>1, <1>3, <1>4
  <1>5. ASSUME NEW i \in Inserts, i = m.part.insert, insert[i].stage = "sent", Part(i) = m.part,
               Becomes(i, "sent", insert[i].host, insert[i].session, insert[i].number, Answer(m),
                       insert[i].await, insert[i].result)
        PROVE  \A j \in Inserts :
                 /\ insert'[j].stage = insert[j].stage /\ insert'[j].number = insert[j].number
                 /\ insert'[j].session = insert[j].session /\ insert'[j].host = insert[j].host
                 /\ insert'[j].await = insert[j].await /\ insert'[j].result = insert[j].result
                 /\ insert'[j].answer = IF insert[j].stage = "sent" /\ Part(j) = m.part
                                        THEN Answer(m) ELSE insert[j].answer
    BY <1>3, <1>5, BecomesAt
  <1> QED
    BY <1>1, <1>2, <1>4, <1>5

(* A lost connection or a crash changes many inserts at once.              *)
LEMMA LossEffect ==
    ASSUME TypeOK, NEW r \in Replicas, loseConnection(r)
    PROVE  /\ insert' \in [Inserts -> InsertStates]
           /\ \A j \in Inserts :
                 IF R(j) = r /\ insert[j].stage = "sent"
                 THEN /\ insert'[j] = Record(j, "verify", insert[j].host, insert[j].session, insert[j].number,
                                            "none", insert[j].await, insert[j].result)
                      /\ insert'[j].stage = "verify" /\ insert'[j].answer = "none"
                      /\ insert'[j].session = insert[j].session /\ insert'[j].number = insert[j].number
                      /\ insert'[j].result = insert[j].result /\ insert'[j].await = insert[j].await
                 ELSE insert'[j] = insert[j]
  <1>1. insert' = [i \in Inserts |-> IF R(i) = r /\ insert[i].stage = "sent"
                                     THEN [insert[i] EXCEPT !.stage = "verify", !.answer = "none"]
                                     ELSE insert[i]]
    BY DEF loseConnection
  <1>2. \A j \in Inserts : insert[j] \in InsertStates
    BY DEF TypeOK
  <1>3. ASSUME NEW j \in Inserts, NEW e, e = [insert[j] EXCEPT !.stage = "verify", !.answer = "none"]
        PROVE  e = Record(j, "verify", insert[j].host, insert[j].session, insert[j].number, "none",
                         insert[j].await, insert[j].result)
    BY <1>2, <1>3 DEF InsertStates, Record
  <1>4. \A j \in Inserts :
            Record(j, "verify", insert[j].host, insert[j].session, insert[j].number, "none",
                   insert[j].await, insert[j].result) \in InsertStates
    BY <1>2 DEF InsertStates, Record, Stages, AnswerKinds, Results
  <1>5. insert' \in [Inserts -> InsertStates]
    BY <1>1, <1>2, <1>3, <1>4
  <1>6. ASSUME NEW j \in Inserts, R(j) = r, insert[j].stage = "sent"
        PROVE  insert'[j] = Record(j, "verify", insert[j].host, insert[j].session, insert[j].number, "none",
                                   insert[j].await, insert[j].result)
    BY <1>1, <1>3, <1>6
  <1>7. \A j \in Inserts : ~(R(j) = r /\ insert[j].stage = "sent") => insert'[j] = insert[j]
    BY <1>1
  <1> QED
    BY <1>5, <1>6, <1>7 DEF Record

LEMMA CrashEffect ==
    ASSUME TypeOK, NEW r \in Replicas, crash(r)
    PROVE  /\ insert' \in [Inserts -> InsertStates]
           /\ \A j \in Inserts :
                 IF R(j) = r /\ insert[j].stage # "done"
                 THEN /\ insert'[j] = Record(j, "done", insert[j].host, insert[j].session, insert[j].number,
                                            insert[j].answer, insert[j].await, "unknown")
                      /\ insert'[j].stage = "done" /\ insert'[j].result = "unknown"
                      /\ insert'[j].session = insert[j].session /\ insert'[j].number = insert[j].number
                 ELSE insert'[j] = insert[j]
  <1>1. insert' = [i \in Inserts |-> IF R(i) = r /\ insert[i].stage # "done"
                                     THEN [insert[i] EXCEPT !.stage = "done", !.result = "unknown"]
                                     ELSE insert[i]]
    BY DEF crash
  <1>2. \A j \in Inserts : insert[j] \in InsertStates
    BY DEF TypeOK
  <1>3. ASSUME NEW j \in Inserts, NEW e, e = [insert[j] EXCEPT !.stage = "done", !.result = "unknown"]
        PROVE  e = Record(j, "done", insert[j].host, insert[j].session, insert[j].number,
                         insert[j].answer, insert[j].await, "unknown")
    BY <1>2, <1>3 DEF InsertStates, Record
  <1>4. \A j \in Inserts :
            Record(j, "done", insert[j].host, insert[j].session, insert[j].number,
                   insert[j].answer, insert[j].await, "unknown") \in InsertStates
    BY <1>2 DEF InsertStates, Record, Stages, AnswerKinds, Results
  <1>5. insert' \in [Inserts -> InsertStates]
    BY <1>1, <1>2, <1>3, <1>4
  <1>6. ASSUME NEW j \in Inserts, R(j) = r, insert[j].stage # "done"
        PROVE  insert'[j] = Record(j, "done", insert[j].host, insert[j].session, insert[j].number,
                                   insert[j].answer, insert[j].await, "unknown")
    BY <1>1, <1>3, <1>6
  <1>7. \A j \in Inserts : ~(R(j) = r /\ insert[j].stage # "done") => insert'[j] = insert[j]
    BY <1>1
  <1> QED
    BY <1>5, <1>6, <1>7 DEF Record

(* No insert changes its replica or its block, none begins again, and one  *)
(* that has ended stays as it is.                                          *)
Steady(j) ==
    /\ insert'[j].replica = insert[j].replica
    /\ insert'[j].content = insert[j].content
    /\ insert[j].stage # "start" => insert'[j].stage # "start" /\ insert'[j].host = insert[j].host
    /\ insert[j].stage = "done" => insert'[j] = insert[j]
    /\ \/ allocateBlockNumber(j)
       \/ /\ insert'[j].number = insert[j].number
          /\ insert'[j].session = insert[j].session
          /\ insert'[j].stage = "locked" => insert[j].stage = "locked"

InsertsSteady == insert' \in [Inserts -> InsertStates] /\ \A j \in Inserts : Steady(j)

LEMMA BecomesSteady ==
    ASSUME TypeOK, NEW i \in Inserts, NEW st \in Stages, NEW h \in Nat, NEW s \in Nat, NEW n \in Nat,
           NEW a \in AnswerKinds,
           NEW w \in SUBSET AnyPart, NEW res \in Results,
           Becomes(i, st, h, s, n, a, w, res),
           insert[i].stage # "done", st # "start",
           insert[i].stage = "start" \/ h = insert[i].host,
           \/ allocateBlockNumber(i)
           \/ n = insert[i].number /\ s = insert[i].session /\ (st = "locked" => insert[i].stage = "locked")
    PROVE  InsertsSteady
  <1>1. insert' \in [Inserts -> InsertStates]
    BY BecomesTyped
  <1>2. insert \in [Inserts -> InsertStates]
    BY DEF TypeOK
  <1>3. \A j \in Inserts : Steady(j)
    BY <1>2 DEF Becomes, Record, Steady
  <1> QED
    BY <1>1, <1>3 DEF InsertsSteady

LEMMA FieldTypes ==
    ASSUME TypeOK, NEW i \in Inserts
    PROVE  /\ insert[i].stage \in Stages /\ R(i) \in Replicas /\ insert[i].content \in Contents
           /\ insert[i].host \in Nat /\ insert[i].session \in Nat /\ insert[i].number \in Nat
           /\ insert[i].answer \in AnswerKinds
           /\ insert[i].await \in SUBSET AnyPart
           /\ insert[i].result \in Results
           /\ Part(i) \in AnyPart /\ blocks[insert[i].content] \in SUBSET AnyPart
           /\ host[R(i)] \in Nat /\ session[R(i)] \in Nat
  <1>1. insert[i] \in InsertStates
    BY DEF TypeOK
  <1> QED
    BY <1>1 DEF TypeOK, InsertStates, Part, AnyPart, R

LEMMA InsertsStay ==
    ASSUME TypeOK, [Next]_vars
    PROVE  InsertsSteady
  <1>1. insert \in [Inserts -> InsertStates] /\ \A i \in Inserts : insert[i] \in InsertStates
    BY DEF TypeOK
  <1>2. CASE UNCHANGED insert
    BY <1>1, <1>2 DEF InsertsSteady, Steady
  <1>3. ASSUME NEW i \in Inserts, InsertStep(i)
        PROVE  InsertsSteady
    <2>1. next_number \in Nat
      BY DEF TypeOK
    <2>2. /\ {"lock", "locked", "sent", "resolve", "verify", "recover", "quorum", "active", "done"} \subseteq Stages
          /\ {"none", "ok", "exists", "missing"} \subseteq AnswerKinds
          /\ {"ok", "error", "unknown", "deduplicated"} \subseteq Results
      BY DEF Stages, AnswerKinds, Results
    <2>3. CASE checkQuorumPrecondition(i)
      <3>1. insert[i].stage = "start"
        BY <2>3 DEF checkQuorumPrecondition
      <3>2. Becomes(i, "lock", host[R(i)], insert[i].session, insert[i].number, insert[i].answer,
                         insert[i].await, insert[i].result)
        BY <2>3, InsertEffects
      <3> QED
        BY <2>1, <2>2, <3>1, <3>2, FieldTypes, BecomesSteady
    <2>4. CASE allocateBlockNumber(i)
      <3>1. insert[i].stage = "lock"
        BY <2>4 DEF allocateBlockNumber
      <3>2. \/ Goes(i, "resolve")
                 \/ Becomes(i, "locked", insert[i].host, session[R(i)], next_number, "none",
                            insert[i].await, insert[i].result)
        BY <2>4, InsertEffects
      <3> QED
        BY <2>1, <2>2, <2>4, <3>1, <3>2, FieldTypes, BecomesSteady DEF Goes
    <2>5. CASE sendCommit(i)
      <3>1. insert[i].stage = "locked"
        BY <2>5 DEF sendCommit
      <3>2. Goes(i, "sent") \/ Goes(i, "verify")
        BY <2>5, InsertEffects
      <3> QED
        BY <2>1, <2>2, <3>1, <3>2, FieldTypes, BecomesSteady DEF Goes
    <2>6. CASE receiveAnswer(i)
      <3>1. insert[i].stage = "sent"
        BY <2>6 DEF receiveAnswer
      <3>2. \/ Awaits(i, "quorum", {Part(i)}, "ok") \/ Awaits(i, "done", {Part(i)}, "ok")
                 \/ Goes(i, "resolve") \/ Ends(i, "error")
        BY <2>6, InsertEffects
      <3> QED
        BY <2>1, <2>2, <3>1, <3>2, FieldTypes, BecomesSteady DEF Goes, Ends, Awaits
    <2>7. CASE resolveDuplicate(i)
      <3>1. insert[i].stage = "resolve"
        BY <2>7 DEF resolveDuplicate
      <3>2. \/ Awaits(i, "quorum", blocks[insert[i].content], "deduplicated")
                 \/ Awaits(i, "done", blocks[insert[i].content], "deduplicated")
        BY <2>7, InsertEffects
      <3> QED
        BY <2>1, <2>2, <3>1, <3>2, FieldTypes, BecomesSteady DEF Awaits
    <2>8. CASE lookForPart(i)
      <3>1. insert[i].stage = "verify"
        BY <2>8 DEF lookForPart
      <3>2. \E a \in {"exists", "missing"} :
                 Becomes(i, "recover", insert[i].host, insert[i].session, insert[i].number, a,
                         insert[i].await, insert[i].result)
        BY <2>8, InsertEffects
      <3> QED
        BY <2>1, <2>2, <3>1, <3>2, FieldTypes, BecomesSteady
    <2>9. CASE recover(i)
      <3>1. insert[i].stage = "recover"
        BY <2>9 DEF recover
      <3>2. \/ Ends(i, "error") \/ Goes(i, "lock")
                 \/ Awaits(i, "quorum", {Part(i)}, "ok") \/ Awaits(i, "done", {Part(i)}, "ok")
        BY <2>9, InsertEffects
      <3> QED
        BY <2>1, <2>2, <3>1, <3>2, FieldTypes, BecomesSteady DEF Goes, Ends, Awaits
    <2>10. CASE lastRetry(i) \/ giveUp(i) \/ giveUpQuorum(i) \/ stillActive(i)
      <3>1. insert[i].stage # "done"
        BY <2>10 DEF lastRetry, giveUp, giveUpQuorum, stillActive
      <3> QED
        BY <2>2, <2>10, <3>1, InsertEffects, FieldTypes, BecomesSteady DEF Ends
    <2>11. CASE waitForQuorum(i) \/ retryQuorum(i)
      <3>1. insert[i].stage # "done"
        BY <2>11 DEF waitForQuorum, retryQuorum
      <3> QED
        BY <2>2, <2>11, <3>1, InsertEffects, FieldTypes, BecomesSteady DEF Goes
    <2> QED
      BY <1>3, <2>3, <2>4, <2>5, <2>6, <2>7, <2>8, <2>9, <2>10, <2>11 DEF InsertStep
  <1>4. ASSUME NEW m \in requests, commitOps(m)
        PROVE  InsertsSteady
    <2>1. Answer(m) \in AnswerKinds /\ "sent" \in Stages
      BY DEF Answer, AnswerKinds, Stages
    <2>2. ASSUME NEW i \in Inserts, insert[i].stage = "sent",
                 Becomes(i, "sent", insert[i].host, insert[i].session, insert[i].number, Answer(m),
                         insert[i].await, insert[i].result)
          PROVE  InsertsSteady
      BY <2>1, <2>2, BecomesSteady, FieldTypes
    <2> QED
      BY <1>2, <1>4, <2>2, CommitEffect
  <1>5. ASSUME NEW r \in Replicas, loseConnection(r) \/ crash(r)
        PROVE  InsertsSteady
    <2>1. insert' \in [Inserts -> InsertStates]
      BY <1>5, LossEffect, CrashEffect
    <2>2. ASSUME NEW j \in Inserts
          PROVE  Steady(j)
      <3>1. \/ insert'[j] = insert[j]
            \/ /\ insert[j].stage = "sent"
               /\ insert'[j] = Record(j, "verify", insert[j].host, insert[j].session, insert[j].number, "none",
                                      insert[j].await, insert[j].result)
            \/ /\ insert[j].stage # "done"
               /\ insert'[j] = Record(j, "done", insert[j].host, insert[j].session, insert[j].number,
                                      insert[j].answer, insert[j].await, "unknown")
        BY <1>5, LossEffect, CrashEffect
      <3> QED
        BY <3>1 DEF Record, Steady
    <2> QED
      BY <2>1, <2>2 DEF InsertsSteady
  <1>6. ASSUME NEW r \in Replicas, ReplicaStep(r) \/ Fault(r)
        PROVE  InsertsSteady
    BY <1>2, <1>5, <1>6, ReplicaFrame, FaultFrame
  <1> QED
    BY <1>2, <1>3, <1>4, <1>6, AllSteps DEF vars

-----------------------------------------------------------------------------
(* The invariant holds at the start.                                       *)
LEMMA InitHolds == Init => IInv
  <1> SUFFICES ASSUME Init PROVE IInv
    OBVIOUS
  <1> USE DEF Init
  <1>1. PICK where \in [Inserts -> Replicas], what \in [Inserts -> Contents] :
          insert = [i \in Inserts |-> Fresh(where[i], what[i])]
    OBVIOUS
  <1>2. insert \in [Inserts -> InsertStates]
    BY <1>1 DEF Fresh, InsertStates, Stages, AnswerKinds, Results, AnyPart
  <1>3. \A i \in Inserts : insert[i].stage = "start" /\ insert[i].session = 0
                           /\ insert[i].host = 0 /\ insert[i].result = "none"
    BY <1>1 DEF Fresh
  <1>4. TypeOK
    BY <1>2 DEF TypeOK
  <1>5. FreshNumbers /\ Sessions /\ Requests /\ Answers /\ Hosts /\ Succeeding
    BY <1>2, <1>3 DEF FreshNumbers, Sessions, Requests, Answers, Hosts, Succeeding, R, InsertStates
  <1>6. Kept /\ Quorums /\ BlockNodes
    BY <1>2, <1>3 DEF Kept, Quorums, BlockNodes
  <1> QED
    BY <1>4, <1>5, <1>6 DEF IInv


-----------------------------------------------------------------------------
(* What a step does to the working set of a replica.                       *)
LEMMA WithEffect ==
    ASSUME TypeOK, NEW r \in Replicas, NEW p, NEW s, local' = With(r, p, s)
    PROVE  /\ DOMAIN local' = Replicas
           /\ \A q \in Replicas : q # r => local'[q] = local[q]
           /\ DOMAIN local'[r] = DOMAIN local[r] \cup {p}
           /\ local'[r][p] = s
           /\ \A q \in DOMAIN local[r] : q # p => local'[r][q] = local[r][q]
           /\ p \in AnyPart => \A q \in Replicas : DOMAIN local'[q] \in SUBSET AnyPart
  BY DEF With, TypeOK

LEMMA WithoutEffect ==
    ASSUME TypeOK, NEW r \in Replicas, NEW ps, local' = Without(r, ps)
    PROVE  /\ DOMAIN local' = Replicas
           /\ \A q \in Replicas : q # r => local'[q] = local[q]
           /\ DOMAIN local'[r] = DOMAIN local[r] \ ps
           /\ \A q \in DOMAIN local[r] \ ps : local'[r][q] = local[r][q]
           /\ \A q \in Replicas : DOMAIN local'[q] \in SUBSET AnyPart
  BY DEF Without, TypeOK

LEMMA TypeStep ==
    ASSUME TypeOK, [Next]_vars
    PROVE  TypeOK'
  <1> DEFINE Rest ==
        /\ next_number' \in Nat
        /\ log' \in SUBSET AnyPart /\ failed' \in SUBSET AnyPart
        /\ blocks' \in [Contents -> SUBSET AnyPart]
        /\ zk_parts' \in [Replicas -> SUBSET AnyPart]
        /\ quorum' \in SUBSET [part : AnyPart, replicas : SUBSET Replicas]
        /\ is_active' \in [Replicas -> Nat] /\ host' \in [Replicas -> Nat]
        /\ requests' \in SUBSET [part : AnyPart, session : Nat]
        /\ session' \in [Replicas -> Nat] /\ expired' \in [Replicas -> BOOLEAN]
        /\ restarting' \in [Replicas -> {"up", "readonly", "stopped", "connected", "cleaned", "active"}]
        /\ DOMAIN local' = Replicas
        /\ \A r \in Replicas : DOMAIN local'[r] \in SUBSET AnyPart
        /\ to_check' \in [Replicas -> SUBSET AnyPart]
        /\ with_quorum' \in BOOLEAN
  <1>1. insert' \in [Inserts -> InsertStates]
    BY InsertsStay DEF InsertsSteady
  <1>2. \A i \in Inserts : Part(i) \in AnyPart /\ R(i) \in Replicas /\ insert[i].content \in Contents
                           /\ insert[i].session \in Nat
    BY FieldTypes
  <1> USE DEF keeper, server
  <1>3. CASE UNCHANGED vars
    BY <1>3 DEF TypeOK, vars
  <1>4. ASSUME NEW i \in Inserts, InsertStep(i)
        PROVE  Rest
    <2>1. CASE UNCHANGED <<keeper, requests, server, with_quorum>>
      BY <2>1 DEF TypeOK
    <2>2. CASE allocateBlockNumber(i)
      BY <2>2 DEF TypeOK, allocateBlockNumber
    <2>3. CASE sendCommit(i)
      <3>1. local' = With(R(i), Part(i), "PreActive")
        BY <2>3 DEF sendCommit
      <3>2. requests' \in SUBSET [part : AnyPart, session : Nat]
        BY <1>2, <2>3 DEF sendCommit, TypeOK
      <3>3. UNCHANGED <<keeper, session, expired, restarting, to_check, losses, with_quorum>>
        BY <2>3 DEF sendCommit
      <3>4. /\ DOMAIN local' = Replicas
            /\ \A r \in Replicas : DOMAIN local'[r] \in SUBSET AnyPart
        BY <1>2, <3>1, WithEffect
      <3> QED
        BY <3>2, <3>3, <3>4 DEF TypeOK
    <2>4. CASE receiveAnswer(i) \/ recover(i)
      <3>1. /\ UNCHANGED <<keeper, requests, session, expired, restarting, to_check, losses, with_quorum>>
            /\ \/ local' = With(R(i), Part(i), "Active")
               \/ local' = Without(R(i), {Part(i)})
               \/ UNCHANGED local
        BY <2>4 DEF receiveAnswer, recover
      <3>2. /\ DOMAIN local' = Replicas
            /\ \A r \in Replicas : DOMAIN local'[r] \in SUBSET AnyPart
        <4>1. CASE UNCHANGED local
          BY <4>1 DEF TypeOK
        <4> QED
          BY <1>2, <3>1, <4>1, WithEffect, WithoutEffect
      <3> QED
        BY <3>1, <3>2 DEF TypeOK
    <2>5. CASE lastRetry(i)
      <3>1. /\ DOMAIN local' = Replicas
            /\ \A r \in Replicas : DOMAIN local'[r] \in SUBSET AnyPart
        BY <1>2, <2>5, WithEffect DEF lastRetry
      <3>2. to_check' \in [Replicas -> SUBSET AnyPart]
        BY <1>2, <2>5 DEF lastRetry, TypeOK
      <3> QED
        BY <2>5, <3>1, <3>2 DEF lastRetry, TypeOK
    <2> QED
      BY <1>4, <2>1, <2>2, <2>3, <2>4, <2>5
         DEF InsertStep, checkQuorumPrecondition, resolveDuplicate, lookForPart, giveUp, waitForQuorum,
             stillActive, retryQuorum, giveUpQuorum
  <1>5. ASSUME NEW m \in requests, commitOps(m)
        PROVE  Rest
    <2>1. m \in [part : AnyPart, session : Nat] /\ m.part \in AnyPart /\ m.part.insert \in Inserts
      BY DEF TypeOK, AnyPart
    <2>2. UNCHANGED server /\ UNCHANGED with_quorum /\ requests' = requests \ {m}
      BY <1>5 DEF commitOps
    <2>3. CASE UNCHANGED keeper
      BY <2>2, <2>3 DEF TypeOK
    <2>4. CASE /\ log' = log \cup {m.part}
               /\ blocks' = [blocks EXCEPT ![insert[m.part.insert].content] = {m.part}]
               /\ zk_parts' = [zk_parts EXCEPT ![R(m.part.insert)] = @ \cup {m.part}]
               /\ quorum' = IF with_quorum THEN {[part |-> m.part, replicas |-> {R(m.part.insert)}]} ELSE quorum
               /\ UNCHANGED <<next_number, failed, is_active, host>>
      BY <1>2, <2>1, <2>2, <2>4 DEF TypeOK
    <2> QED
      BY <1>5, <2>3, <2>4 DEF commitOps
  <1>6. ASSUME NEW r \in Replicas, NEW p \in AnyPart, checkPart(r, p) \/ fetchPart(r, p)
        PROVE  Rest
    <2>1. /\ DOMAIN local' = Replicas
          /\ \A q \in Replicas : DOMAIN local'[q] \in SUBSET AnyPart
      <3>1. CASE UNCHANGED local
        BY <3>1 DEF TypeOK
      <3> QED
        BY <1>6, <3>1, WithEffect, WithoutEffect DEF checkPart, fetchPart
    <2>2. CASE checkPart(r, p)
      BY <2>1, <2>2 DEF checkPart, TypeOK
    <2>3. CASE fetchPart(r, p)
      BY <2>1, <2>3 DEF fetchPart, TypeOK
    <2> QED
      BY <1>6, <2>2, <2>3
  <1>7. ASSUME NEW r \in Replicas, NEW p, UpdateQuorum(r, p)
        PROVE  quorum' \in SUBSET [part : AnyPart, replicas : SUBSET Replicas]
    BY <1>7 DEF UpdateQuorum, Joined, TypeOK
  <1>8. ASSUME NEW r \in Replicas, NEW p \in log, updateQuorum(r, p) \/ failQuorum(r, p)
        PROVE  Rest
    <2>1. CASE updateQuorum(r, p)
      BY <1>7, <2>1 DEF updateQuorum, TypeOK
    <2>2. CASE failQuorum(r, p)
      BY <2>2 DEF failQuorum, TypeOK
    <2> QED
      BY <1>8, <2>1, <2>2
  <1>9. ASSUME NEW r \in Replicas,
               partialShutdown(r) \/ setZooKeeper(r) \/ activateReplica(r) \/ updateQuorumIfWeHavePart(r)
        PROVE  Rest
    <2>1. CASE partialShutdown(r)
      BY <2>1 DEF partialShutdown, TypeOK
    <2>2. CASE setZooKeeper(r)
      BY <2>2 DEF setZooKeeper, Restart, TypeOK
    <2>3. CASE activateReplica(r)
      BY <2>3 DEF activateReplica, Restart, TypeOK
    <2>4. CASE updateQuorumIfWeHavePart(r)
      BY <1>7, <2>4 DEF updateQuorumIfWeHavePart, Restart, TypeOK
    <2> QED
      BY <1>9, <2>1, <2>2, <2>3, <2>4
  <1>10. ASSUME NEW r \in Replicas, removeFailedQuorumParts(r) \/ startServer(r)
         PROVE  Rest
    <2>1. /\ DOMAIN local' = Replicas
          /\ \A q \in Replicas : DOMAIN local'[q] \in SUBSET AnyPart
      BY <1>10, WithoutEffect DEF removeFailedQuorumParts, startServer
    <2>2. CASE removeFailedQuorumParts(r)
      BY <2>1, <2>2 DEF removeFailedQuorumParts, Restart, TypeOK
    <2>3. CASE startServer(r)
      <3>1. /\ session' \in [Replicas -> Nat] /\ expired' \in [Replicas -> BOOLEAN]
            /\ restarting' \in [Replicas -> {"up", "readonly", "stopped", "connected", "cleaned", "active"}]
        BY <2>3 DEF startServer, TypeOK
      <3>2. zk_parts' \in [Replicas -> SUBSET AnyPart]
        BY <2>3 DEF startServer, TypeOK
      <3>3. UNCHANGED <<next_number, log, blocks, quorum, failed, is_active, host, requests, to_check, with_quorum>>
        BY <2>3 DEF startServer
      <3> QED
        BY <2>1, <3>1, <3>2, <3>3 DEF TypeOK
    <2> QED
      BY <1>10, <2>2, <2>3
  <1>11. ASSUME NEW r \in Replicas, loseConnection(r) \/ crash(r)
         PROVE  Rest
    <2>1. CASE loseConnection(r)
      BY <2>1 DEF loseConnection, TypeOK
    <2>2. CASE crash(r)
      BY <2>2 DEF crash, TypeOK
    <2> QED
      BY <1>11, <2>1, <2>2
  <1>12. ASSUME NEW r \in Replicas, NEW s, expireSession(r, s)
         PROVE  Rest
    BY <1>12 DEF expireSession, TypeOK
  <1>13. Rest
    BY <1>3, <1>4, <1>5, <1>6, <1>8, <1>9, <1>10, <1>11, <1>12 DEF Next, ReplicaStep, Fault, TypeOK
  <1> QED
    BY <1>1, <1>13 DEF TypeOK

-----------------------------------------------------------------------------
(* Nothing has the number of a part that is not sent yet.                  *)
LEMMA FreshNumbersStep ==
    ASSUME TypeOK, FreshNumbers, [Next]_vars
    PROVE  FreshNumbers'
  <1> USE DEF keeper, server, Part
  <1>1. InsertsSteady
    BY InsertsStay
  <1>2. \A m \in requests : m.part \in AnyPart /\ m.part.insert \in Inserts /\ m.part.number \in Nat
    BY DEF TypeOK, AnyPart
  <1>3. \A p \in log : p.insert \in Inserts /\ p.number \in Nat
    BY DEF TypeOK, AnyPart
  <1>4. next_number \in Nat /\ next_number < next_number + 1
    BY DEF TypeOK
  <1>5. ASSUME \A j \in Inserts : ~allocateBlockNumber(j),
               UNCHANGED <<next_number, log>>, requests' \subseteq requests
        PROVE  FreshNumbers'
    BY <1>1, <1>2, <1>3, <1>5 DEF FreshNumbers, InsertsSteady, Steady
  <1>6. ASSUME NEW i \in Inserts, allocateBlockNumber(i)
        PROVE  FreshNumbers'
    <2>1. UNCHANGED <<log, requests>> /\ insert[i].stage = "lock"
      BY <1>6 DEF allocateBlockNumber
    <2>2. CASE Goes(i, "resolve") /\ UNCHANGED next_number
      BY <1>2, <1>3, <2>1, <2>2 DEF FreshNumbers, Goes, Becomes, Record, TypeOK
    <2>3. CASE /\ next_number' = next_number + 1
               /\ Becomes(i, "locked", insert[i].host, session[R(i)], next_number, "none",
                          insert[i].await, insert[i].result)
      <3>1. \A n \in Nat : n < next_number => n < next_number'
        BY <1>4, <2>3
      <3>2. /\ insert'[i].stage = "locked" /\ insert'[i].number = next_number
            /\ \A j \in Inserts : j # i => insert'[j] = insert[j]
        BY <2>3 DEF Becomes, Record, TypeOK
      <3>3. \A j \in Inserts : insert[j].number \in Nat
        BY FieldTypes
      <3>4. \A p \in log : p.number < next_number' /\ insert'[p.insert].stage # "start"
        BY <1>3, <3>1, <3>2 DEF FreshNumbers
      <3>5. \A m \in requests : m.part.number < next_number' /\ insert'[m.part.insert].stage # "start"
        BY <1>2, <3>1, <3>2 DEF FreshNumbers
      <3>6. ASSUME NEW j \in Inserts, insert'[j].stage = "locked"
            PROVE  /\ insert'[j].number < next_number'
                   /\ Part(j)' \notin log
                   /\ \A m \in requests : m.part # Part(j)'
        <4>1. CASE j # i
          BY <3>1, <3>2, <3>3, <3>6, <4>1 DEF FreshNumbers
        <4>2. CASE j = i
          <5>1. Part(j)'.number = next_number
            BY <3>2, <4>2
          <5>2. \A p \in log : p.number # next_number
            BY <1>3, <1>4 DEF FreshNumbers
          <5>3. \A m \in requests : m.part.number # next_number
            BY <1>2, <1>4 DEF FreshNumbers
          <5> QED
            BY <1>4, <2>3, <3>2, <4>2, <5>1, <5>2, <5>3
        <4> QED
          BY <4>1, <4>2
      <3> QED
        BY <2>1, <3>4, <3>5, <3>6 DEF FreshNumbers
    <2> QED
      BY <1>6, <2>2, <2>3, InsertEffects
  <1>7. ASSUME NEW i \in Inserts, sendCommit(i)
        PROVE  FreshNumbers'
    <2>1. /\ insert[i].stage = "locked" /\ UNCHANGED <<log, next_number>>
          /\ requests' \subseteq requests \cup {[part |-> Part(i), session |-> insert[i].session]}
      BY <1>7 DEF sendCommit
    <2>2. Goes(i, "sent") \/ Goes(i, "verify")
      BY <1>7, InsertEffects
    <2>3. insert'[i].stage \in {"sent", "verify"}
      BY <2>2, BecomesAt DEF Goes
    <2>4. \A j \in Inserts : j # i => insert'[j] = insert[j]
      BY <2>2, BecomesAt DEF Goes
    <2>5. \A j \in Inserts : insert'[j].stage # "start" \/ insert[j].stage = "start"
      BY <1>1 DEF InsertsSteady, Steady
    <2> QED
      BY <1>2, <1>3, <2>1, <2>3, <2>4, <2>5 DEF FreshNumbers
  <1>8. ASSUME NEW m \in requests, commitOps(m)
        PROVE  FreshNumbers'
    <2>1. UNCHANGED next_number /\ requests' = requests \ {m} /\ log' \subseteq log \cup {m.part}
      BY <1>8 DEF commitOps
    <2>2. \A j \in Inserts : /\ insert'[j].number = insert[j].number
                             /\ insert'[j].stage = insert[j].stage
      BY <1>8, CommitEffect
    <2> QED
      BY <1>2, <1>3, <2>1, <2>2 DEF FreshNumbers
  <1>9. \/ UNCHANGED <<next_number, log>> /\ requests' \subseteq requests
        \/ \E i \in Inserts : allocateBlockNumber(i) \/ sendCommit(i)
        \/ \E m \in requests : commitOps(m)
    BY AllSteps, InsertFrame, ReplicaFrame, FaultFrame DEF vars
  <1> QED
    BY <1>5, <1>6, <1>7, <1>8, <1>9

(* Inserts enter and leave the stages in which they have something to lose *)
(* in these ways only.                                                     *)
LEMMA StageSteps ==
    ASSUME TypeOK, NEW i \in Inserts, InsertStep(i)
    PROVE  /\ insert[i].stage # "done"
           /\ \A j \in Inserts : j # i => insert'[j] = insert[j]
           /\ insert'[i].replica = insert[i].replica
           /\ \/ allocateBlockNumber(i) /\ insert'[i].stage = "locked" /\ insert'[i].session = session[R(i)]
                 /\ insert'[i].number = next_number /\ insert'[i].answer = "none"
              \/ /\ sendCommit(i) /\ insert'[i].stage \in {"sent", "verify"}
                 /\ insert'[i].session = insert[i].session
                 /\ insert'[i].number = insert[i].number /\ insert'[i].answer = insert[i].answer
              \/ /\ lookForPart(i) /\ insert'[i].stage = "recover"
                 /\ insert'[i].answer = (IF Part(i) \in zk_parts[R(i)] THEN "exists" ELSE "missing")
                 /\ insert'[i].session = insert[i].session
                 /\ insert'[i].number = insert[i].number
              \/ /\ insert'[i].stage \in {"lock", "resolve", "quorum", "active", "done"}
                 /\ insert'[i].session = insert[i].session
                 /\ insert'[i].number = insert[i].number
                 /\ insert[i].stage \in {"sent", "verify", "recover"} =>
                       receiveAnswer(i) \/ recover(i) \/ lastRetry(i)
  <1>1. insert[i].stage # "done"
    BY DEF InsertStep, allocateBlockNumber, sendCommit, lastRetry, checkQuorumPrecondition,
           receiveAnswer, resolveDuplicate, lookForPart, recover, giveUp, waitForQuorum, stillActive, retryQuorum,
           giveUpQuorum
  <1>2. ASSUME NEW st \in {"lock", "resolve", "quorum", "active", "done"}, NEW h, NEW a, NEW w, NEW res,
               Becomes(i, st, h, insert[i].session, insert[i].number, a, w, res)
        PROVE  /\ \A j \in Inserts : j # i => insert'[j] = insert[j]
           /\ insert'[i].replica = insert[i].replica
           /\ insert'[i].session = insert[i].session
           /\ insert'[i].number = insert[i].number
           /\ insert'[i].stage \in {"lock", "resolve", "quorum", "active", "done"}
    BY <1>2, BecomesAt
  <1>3. CASE allocateBlockNumber(i)
    <2>1. insert[i].stage = "lock"
      BY <1>3 DEF allocateBlockNumber
    <2>2. CASE Goes(i, "resolve")
      BY <1>1, <1>2, <2>1, <2>2 DEF Goes
    <2>3. CASE Becomes(i, "locked", insert[i].host, session[R(i)], next_number, "none",
                       insert[i].await, insert[i].result)
      BY <1>1, <1>3, <2>3, BecomesAt
    <2> QED
      BY <1>3, <2>2, <2>3, InsertEffects
  <1>4. CASE sendCommit(i)
    <2>1. Goes(i, "sent") \/ Goes(i, "verify")
      BY <1>4, InsertEffects
    <2> QED
      BY <1>1, <1>4, <2>1, BecomesAt DEF Goes
  <1>5. CASE lookForPart(i)
    <2>1. Becomes(i, "recover", insert[i].host, insert[i].session, insert[i].number,
                  IF Part(i) \in zk_parts[R(i)] THEN "exists" ELSE "missing",
                  insert[i].await, insert[i].result)
      BY <1>5, InsertEffects
    <2> QED
      BY <1>1, <1>5, <2>1, BecomesAt
  <1>6. CASE checkQuorumPrecondition(i)
    <2>1. Becomes(i, "lock", host[R(i)], insert[i].session, insert[i].number, insert[i].answer,
                  insert[i].await, insert[i].result)
      BY <1>6, InsertEffects
    <2>2. insert[i].stage = "start"
      BY <1>6 DEF checkQuorumPrecondition
    <2> QED
      BY <1>1, <1>2, <2>1, <2>2
  <1>7. CASE receiveAnswer(i) \/ recover(i)
    <2>1. \/ Awaits(i, "quorum", {Part(i)}, "ok") \/ Awaits(i, "done", {Part(i)}, "ok")
          \/ Goes(i, "resolve") \/ Goes(i, "lock") \/ Ends(i, "error")
      BY <1>7, InsertEffects
    <2> QED
      BY <1>1, <1>2, <1>7, <2>1 DEF Awaits, Goes, Ends
  <1>8. CASE resolveDuplicate(i)
    <2>1. \/ Awaits(i, "quorum", blocks[insert[i].content], "deduplicated")
          \/ Awaits(i, "done", blocks[insert[i].content], "deduplicated")
      BY <1>8, InsertEffects
    <2>2. insert[i].stage = "resolve"
      BY <1>8 DEF resolveDuplicate
    <2> QED
      BY <1>1, <1>2, <2>1, <2>2 DEF Awaits
  <1>9. CASE lastRetry(i) \/ giveUp(i) \/ stillActive(i) \/ giveUpQuorum(i)
    <2>1. \E res : Ends(i, res)
      BY <1>9, InsertEffects
    <2>2. lastRetry(i) \/ insert[i].stage \notin {"sent", "verify", "recover"}
      BY <1>9 DEF giveUp, stillActive, giveUpQuorum
    <2> QED
      BY <1>1, <1>2, <2>1, <2>2 DEF Ends
  <1>10. CASE waitForQuorum(i) \/ retryQuorum(i)
    <2>1. Goes(i, "active") \/ Goes(i, "quorum")
      BY <1>10, InsertEffects
    <2>2. insert[i].stage \notin {"sent", "verify", "recover"}
      BY <1>10 DEF waitForQuorum, retryQuorum
    <2> QED
      BY <1>1, <1>2, <2>1, <2>2 DEF Goes
  <1> QED
    BY <1>3, <1>4, <1>5, <1>6, <1>7, <1>8, <1>9, <1>10 DEF InsertStep

(* What has a lock or a request of the current session is at a replica     *)
(* that is up.                                                             *)
LEMMA SessionsStep ==
    ASSUME TypeOK, Sessions, [Next]_vars
    PROVE  Sessions'
  <1>1. InsertsSteady
    BY InsertsStay
  <1>2. \A j \in Inserts : /\ insert'[j].replica = insert[j].replica
                           /\ insert[j].stage = "done" => insert'[j] = insert[j]
                           /\ insert[j].session \in Nat
                           /\ R(j) \in Replicas /\ session[R(j)] \in Nat
    BY <1>1, FieldTypes DEF InsertsSteady, Steady
  <1>3. CASE UNCHANGED vars
    BY <1>3 DEF Sessions, vars, keeper, server, R, Connected
  <1>4. ASSUME NEW i \in Inserts, InsertStep(i)
        PROVE  Sessions'
    <2>1. UNCHANGED <<session, expired, restarting>>
      BY <1>4, InsertFrame
    <2>2. \A r \in Replicas : restarting[r] = "stopped" =>
              expired[r] /\ \A j \in Inserts : insert[j].replica = r => insert'[j].stage = "done"
      BY <1>2 DEF Sessions, R
    <2>3. ASSUME NEW j \in Inserts
          PROVE  /\ insert'[j].session <= session[R(j)]
                 /\ insert'[j].stage = "locked" /\ Connected(R(j)) /\ insert'[j].session = session[R(j)] =>
                       restarting[R(j)] = "up"
                 /\ insert'[j].stage = "sent" =>
                       Connected(R(j)) /\ restarting[R(j)] = "up" /\ insert'[j].session = session[R(j)]
                 /\ insert'[j].stage = "verify" /\ Connected(R(j)) => insert'[j].session < session[R(j)]
                 /\ insert'[j].stage = "recover" => insert'[j].session < session[R(j)]
      <3>1. CASE insert'[j] = insert[j]
        BY <3>1 DEF Sessions
      <3>2. CASE j = i
        <4>1. CASE allocateBlockNumber(i) /\ insert'[i].stage = "locked" /\ insert'[i].session = session[R(i)]
          BY <1>2, <3>2, <4>1 DEF allocateBlockNumber, Readonly
        <4>2. CASE sendCommit(i) /\ insert'[i].stage \in {"sent", "verify"} /\ insert'[i].session = insert[i].session
          <5>1. insert[i].stage = "locked"
            BY <4>2 DEF sendCommit
          <5>2. \/ /\ insert'[i].stage = "sent" /\ Connected(R(i)) /\ session[R(i)] = insert[i].session
                \/ /\ insert'[i].stage = "verify" /\ ~(Connected(R(i)) /\ session[R(i)] = insert[i].session)
            <6>1. \/ Goes(i, "sent") /\ Connected(R(i)) /\ session[R(i)] = insert[i].session
                  \/ Goes(i, "verify") /\ ~(Connected(R(i)) /\ session[R(i)] = insert[i].session)
              BY <4>2, InsertEffects
            <6> QED
              BY <6>1, BecomesAt DEF Goes
          <5> QED
            BY <1>2, <3>2, <4>2, <5>1, <5>2 DEF Sessions
        <4>3. CASE lookForPart(i) /\ insert'[i].stage = "recover" /\ insert'[i].session = insert[i].session
          BY <1>2, <3>2, <4>3 DEF lookForPart, Sessions
        <4>4. CASE insert'[i].stage \in {"lock", "resolve", "quorum", "active", "done"}
                   /\ insert'[i].session = insert[i].session
          BY <1>2, <3>2, <4>4 DEF Sessions
        <4> QED
          BY <1>4, <4>1, <4>2, <4>3, <4>4, StageSteps
      <3> QED
        BY <1>4, <3>1, <3>2, StageSteps
    <2> QED
      BY <1>2, <2>1, <2>2, <2>3 DEF Sessions, R, Connected
  <1>5. ASSUME NEW m \in requests, commitOps(m)
        PROVE  Sessions'
    <2>1. UNCHANGED <<session, expired, restarting>>
      BY <1>5, CommitFrame
    <2>2. \A j \in Inserts : insert'[j].stage = insert[j].stage /\ insert'[j].session = insert[j].session
      BY <1>5, CommitEffect
    <2> QED
      BY <1>2, <2>1, <2>2 DEF Sessions, R, Connected
  <1>6. ASSUME NEW r \in Replicas, ReplicaStep(r)
        PROVE  Sessions'
    <2>1. UNCHANGED insert
      BY <1>6, ReplicaFrame
    <2> USE DEF Sessions, R, Connected, TypeOK
    <2>2. CASE partialShutdown(r)
      BY <1>2, <2>1, <2>2 DEF partialShutdown
    <2>3. CASE setZooKeeper(r)
      <3>1. \A n \in Nat : n <= session[r] => n < session'[r] /\ n <= session'[r]
        BY <2>3 DEF setZooKeeper
      <3>2. \A q \in Replicas : q # r =>
                session'[q] = session[q] /\ expired'[q] = expired[q] /\ restarting'[q] = restarting[q]
        BY <2>3 DEF setZooKeeper, Restart
      <3>3. restarting[r] = "readonly" /\ restarting'[r] = "connected" /\ expired[r]
        BY <2>3 DEF setZooKeeper, Restart
      <3>4. \A q \in Replicas : restarting'[q] = "stopped" => q # r
        BY <3>3
      <3>5. ASSUME NEW j \in Inserts, R(j) = r
            PROVE  /\ insert[j].session < session'[r] /\ insert[j].session <= session'[r]
                   /\ insert[j].stage # "sent"
        BY <1>2, <3>1, <3>3, <3>5
      <3>6. \A j \in Inserts : R(j) = r => insert[j].session # session'[r]
        BY <1>2, <3>5
      <3> HIDE DEF TypeOK
      <3> QED
        BY <1>2, <2>1, <3>2, <3>4, <3>5, <3>6
    <2>4. CASE removeFailedQuorumParts(r) \/ activateReplica(r) \/ updateQuorumIfWeHavePart(r)
      <3>1. UNCHANGED <<session, expired>>
        BY <2>4 DEF removeFailedQuorumParts, activateReplica, updateQuorumIfWeHavePart
      <3>2. /\ \A q \in Replicas : q # r => restarting'[q] = restarting[q]
            /\ restarting[r] # "up" /\ restarting'[r] # "stopped"
        BY <2>4 DEF removeFailedQuorumParts, activateReplica, updateQuorumIfWeHavePart, Restart
      <3> QED
        BY <1>2, <2>1, <3>1, <3>2
    <2>5. CASE UNCHANGED <<session, expired, restarting>>
      BY <2>1, <2>5
    <2>6. setZooKeeper(r) \/ UNCHANGED <<session, expired>>
      BY <1>6, ReplicaFrame
    <2> QED
      BY <1>6, <2>2, <2>3, <2>4, <2>5, <2>6, ReplicaFrame
  <1>7. ASSUME NEW r \in Replicas, Fault(r)
        PROVE  Sessions'
    <2> USE DEF Sessions, R, Connected
    <2>1. CASE loseConnection(r)
      <3>1. UNCHANGED <<session, restarting>> /\ expired' = [expired EXCEPT ![r] = TRUE]
        BY <2>1 DEF loseConnection
      <3>2. expired'[r] /\ \A q \in Replicas : q # r => expired'[q] = expired[q]
        BY <3>1 DEF TypeOK
      <3>3. ASSUME NEW j \in Inserts
            PROVE  /\ insert'[j].session = insert[j].session
                   /\ \/ insert'[j].stage = insert[j].stage /\ ~(R(j) = r /\ insert[j].stage = "sent")
                      \/ insert'[j].stage = "verify" /\ R(j) = r
        BY <2>1, LossEffect
      <3>4. ASSUME NEW q \in Replicas, restarting[q] = "stopped"
            PROVE  expired'[q] /\ \A j \in Inserts : R(j) = q => insert'[j].stage = "done"
        BY <1>2, <3>2, <3>4
      <3>5. ASSUME NEW j \in Inserts
            PROVE  /\ insert'[j].stage = "locked" /\ ~expired'[R(j)] /\ insert'[j].session = session[R(j)] =>
                         restarting[R(j)] = "up"
                   /\ insert'[j].stage = "sent" =>
                         ~expired'[R(j)] /\ restarting[R(j)] = "up" /\ insert'[j].session = session[R(j)]
                   /\ insert'[j].stage = "verify" /\ ~expired'[R(j)] => insert'[j].session < session[R(j)]
                   /\ insert'[j].stage = "recover" => insert'[j].session < session[R(j)]
        <4>1. CASE R(j) = r
          BY <1>2, <3>2, <3>3, <4>1
        <4>2. CASE R(j) # r
          BY <1>2, <3>2, <3>3, <4>2
        <4> QED
          BY <4>1, <4>2
      <3> QED
        BY <1>2, <3>1, <3>3, <3>4, <3>5
    <2>2. CASE crash(r)
      <3>1. UNCHANGED session /\ expired' = [expired EXCEPT ![r] = TRUE]
            /\ restarting' = [restarting EXCEPT ![r] = "stopped"]
        BY <2>2 DEF crash
      <3>2. /\ expired'[r] /\ restarting'[r] = "stopped"
            /\ \A q \in Replicas : q # r => expired'[q] = expired[q] /\ restarting'[q] = restarting[q]
        BY <3>1 DEF TypeOK
      <3>3. ASSUME NEW j \in Inserts
            PROVE  /\ insert'[j].session = insert[j].session
                   /\ \/ insert'[j].stage = insert[j].stage /\ R(j) # r
                      \/ insert'[j].stage = "done" /\ R(j) = r
        BY <2>2, CrashEffect
      <3>4. ASSUME NEW q \in Replicas, restarting'[q] = "stopped"
            PROVE  expired'[q] /\ \A j \in Inserts : R(j) = q => insert'[j].stage = "done"
        <4>1. CASE q = r
          BY <3>2, <3>3, <4>1
        <4>2. CASE q # r
          BY <1>2, <3>2, <3>4, <4>2
        <4> QED
          BY <4>1, <4>2
      <3>5. ASSUME NEW j \in Inserts
            PROVE  /\ insert'[j].stage = "locked" /\ ~expired'[R(j)] /\ insert'[j].session = session[R(j)] =>
                         restarting'[R(j)] = "up"
                   /\ insert'[j].stage = "sent" =>
                         ~expired'[R(j)] /\ restarting'[R(j)] = "up" /\ insert'[j].session = session[R(j)]
                   /\ insert'[j].stage = "verify" /\ ~expired'[R(j)] => insert'[j].session < session[R(j)]
                   /\ insert'[j].stage = "recover" => insert'[j].session < session[R(j)]
        <4>1. CASE R(j) = r
          BY <3>3, <4>1
        <4>2. CASE R(j) # r
          BY <1>2, <3>2, <3>3, <4>2
        <4> QED
          BY <4>1, <4>2
      <3> QED
        BY <1>2, <3>1, <3>3, <3>4, <3>5
    <2>3. CASE startServer(r)
      <3>1. UNCHANGED insert /\ restarting[r] = "stopped"
        BY <2>3 DEF startServer
      <3>2. \A q \in Replicas : q # r =>
                session'[q] = session[q] /\ expired'[q] = expired[q] /\ restarting'[q] = restarting[q]
        BY <2>3 DEF startServer
      <3>3. session'[r] = session[r] + 1 /\ restarting'[r] = "connected"
        BY <2>3 DEF startServer, TypeOK
      <3>4. \A j \in Inserts : R(j) = r =>
                insert[j].stage = "done" /\ insert[j].session <= session'[r]
        BY <1>2, <3>1, <3>3
      <3> QED
        BY <1>2, <3>1, <3>2, <3>3, <3>4
    <2>4. CASE \E s \in 1..session[r] : expireSession(r, s)
      BY <2>4 DEF expireSession, server
    <2> QED
      BY <1>7, <2>1, <2>2, <2>3, <2>4 DEF Fault
  <1> QED
    BY <1>3, <1>4, <1>5, <1>6, <1>7, AllSteps

(* An answer is given once, and to who waits for it.                       *)
LEMMA RequestsStep ==
    ASSUME IInv, [Next]_vars
    PROVE  Requests'
  <1> TypeOK /\ FreshNumbers /\ Sessions /\ Requests /\ Answers /\ Kept /\ Quorums
    BY DEF IInv
  <1>1. \A j \in Inserts : /\ insert'[j].replica = insert[j].replica
                           /\ R(j) \in Replicas /\ session[R(j)] \in Nat /\ insert[j].session \in Nat
    BY InsertsStay, FieldTypes DEF InsertsSteady, Steady
  <1>2. \A m \in requests : m.part \in AnyPart /\ m.part.insert \in Inserts /\ m.session \in Nat
    BY DEF TypeOK, AnyPart
  <1> DEFINE Fits(m, i) ==
        /\ m.part \notin log'
        /\ m.session <= session'[R(i)]
        /\ m.part = Part(i)' => m.session = insert'[i].session
        /\ m.session = session'[R(i)] => m.part \in DOMAIN local'[R(i)]
        /\ m.session = session'[R(i)] /\ ~expired'[R(i)] =>
              insert'[i].stage = "sent" /\ Part(i)' = m.part /\ insert'[i].answer = "none"
  <1>3. ASSUME /\ \A m, n \in requests' : m.part = n.part => m = n
               /\ \A m \in requests' : Fits(m, m.part.insert) /\ m.part.insert \in Inserts
        PROVE  Requests'
    BY <1>1, <1>3 DEF Requests, R, Connected
  <1> HIDE DEF Fits
  <1>4. CASE UNCHANGED vars
    BY <1>4 DEF Requests, vars, keeper, server, R, Connected, Part
  <1>5. ASSUME NEW k \in Inserts, InsertStep(k)
        PROVE  Requests'
    <2>1. UNCHANGED <<log, session, expired>>
      BY <1>5, InsertFrame
    <2>2. /\ insert[k].stage = "sent" => receiveAnswer(k)
          /\ \A j \in Inserts : j # k => insert'[j] = insert[j]
      <3>1. insert[k].stage = "sent" => ~allocateBlockNumber(k) /\ ~sendCommit(k) /\ ~lookForPart(k)
                                         /\ ~recover(k) /\ ~lastRetry(k)
        BY DEF allocateBlockNumber, sendCommit, lookForPart, recover, lastRetry
      <3> QED
        BY <1>5, <3>1, StageSteps
    <2>3. ASSUME NEW m \in requests, m.part.insert = k, m.session = session[R(k)]
          PROVE  ~Connected(R(k))
      <3>1. insert[k].stage = "sent" => insert[k].answer # "none"
        BY <2>2 DEF receiveAnswer
      <3> QED
        BY <2>3, <3>1 DEF Requests
    <2>4. ASSUME NEW m \in requests, m.session = session[R(m.part.insert)]
          PROVE  m.part \in DOMAIN local'[R(m.part.insert)]
      <3> DEFINE q == R(m.part.insert)
      <3>1. m.part \in DOMAIN local[q] /\ q \in Replicas
        BY <1>1, <1>2, <2>4 DEF Requests
      <3>2. CASE UNCHANGED local
        BY <3>1, <3>2
      <3>3. CASE \E s : local' = With(R(k), Part(k), s)
        BY <1>1, <3>1, <3>3, WithEffect
      <3>4. CASE local' = Without(R(k), {Part(k)}) /\ m.part # Part(k)
        <4>1. /\ \A p \in Replicas : p # R(k) => local'[p] = local[p]
              /\ DOMAIN local'[R(k)] = DOMAIN local[R(k)] \ {Part(k)}
          BY <1>1, <3>4, WithoutEffect
        <4> QED
          BY <3>1, <3>4, <4>1
      <3>5. CASE receiveAnswer(k) \/ recover(k)
        <4>1. CASE m.part = Part(k)
          <5>1. m.part.insert = k
            BY <4>1 DEF Part
          <5>2. ~Connected(R(k))
            BY <2>3, <2>4, <5>1
          <5>3. ~recover(k)
            BY <5>2 DEF recover
          <5>4. insert[k].stage = "sent"
            BY <3>5, <5>3 DEF receiveAnswer
          <5> QED
            BY <5>2, <5>4 DEF Sessions
        <4>2. \/ UNCHANGED local \/ local' = Without(R(k), {Part(k)}) \/ local' = With(R(k), Part(k), "Active")
          BY <3>5 DEF receiveAnswer, recover
        <4> QED
          BY <3>2, <3>3, <3>4, <4>1, <4>2
      <3>6. CASE sendCommit(k) \/ lastRetry(k)
        BY <3>3, <3>6 DEF sendCommit, lastRetry
      <3> QED
        BY <1>5, <3>2, <3>5, <3>6, InsertFrame
    <2>5. ASSUME NEW m \in requests
          PROVE  Fits(m, m.part.insert)
      <3> DEFINE i == m.part.insert
      <3>1. i \in Inserts /\ m.part.number < next_number /\ m.part.number \in Nat
        BY <1>2 DEF FreshNumbers, TypeOK, AnyPart
      <3>2. m.part = Part(i)' => m.session = insert'[i].session
        <4>1. CASE i # k
          <5>1. insert'[i] = insert[i]
            BY <2>2, <3>1, <4>1
          <5> QED
            BY <3>1, <5>1 DEF Requests, Part
        <4>2. CASE i = k
          <5>1. \/ insert'[k].number = next_number
                \/ insert'[k].number = insert[k].number /\ insert'[k].session = insert[k].session
            BY <1>5, StageSteps
          <5> QED
            BY <3>1, <4>2, <5>1 DEF Requests, Part, TypeOK
        <4> QED
          BY <4>1, <4>2
      <3>3. m.session = session[R(i)] /\ Connected(R(i)) =>
               insert'[i].stage = "sent" /\ Part(i)' = m.part /\ insert'[i].answer = "none"
        <4>1. CASE i # k
          <5>1. insert'[i] = insert[i]
            BY <2>2, <3>1, <4>1
          <5> QED
            BY <3>1, <5>1 DEF Requests, Part
        <4>2. CASE i = k
          BY <2>3, <4>2
        <4> QED
          BY <4>1, <4>2
      <3> QED
        BY <2>1, <2>4, <3>1, <3>2, <3>3 DEF Fits, Requests, Connected
    <2>6. CASE UNCHANGED requests
      BY <1>2, <1>3, <2>5, <2>6 DEF Requests
    <2>7. CASE sendCommit(k) /\ requests' # requests
      <3> DEFINE n == [part |-> Part(k), session |-> insert[k].session]
      <3>1. Goes(k, "sent") /\ Connected(R(k)) /\ session[R(k)] = insert[k].session /\ requests' = requests \cup {n}
        BY <2>7, InsertEffects
      <3>2. insert[k].stage = "locked" /\ local' = With(R(k), Part(k), "PreActive")
        BY <2>7 DEF sendCommit
      <3>3. /\ insert'[k].stage = "sent" /\ insert'[k].number = insert[k].number
            /\ insert'[k].session = insert[k].session /\ insert'[k].answer = "none"
        <4>1. insert[k].answer = "none"
          BY <3>2 DEF Answers
        <4> QED
          BY <3>1, <4>1, BecomesAt DEF Goes
      <3>4. Part(k) \notin log /\ \A m \in requests : m.part # Part(k)
        BY <3>2 DEF FreshNumbers
      <3>5. Part(k) \in DOMAIN local'[R(k)]
        BY <1>1, <3>2, WithEffect
      <3>6. Fits(n, k)
        BY <1>1, <2>1, <3>1, <3>3, <3>4, <3>5 DEF Fits, Part
      <3>7. n.part.insert = k /\ n.part = Part(k)
        BY DEF Part
      <3> HIDE DEF n
      <3>8. \A x, y \in requests' : x.part = y.part => x = y
        BY <3>1, <3>4, <3>7 DEF Requests
      <3> QED
        BY <1>2, <1>3, <2>5, <3>1, <3>6, <3>7, <3>8
    <2> QED
      BY <1>5, <2>6, <2>7, InsertFrame
  <1>6. ASSUME NEW n \in requests, commitOps(n)
        PROVE  Requests'
    <2>1. UNCHANGED <<session, expired, local>> /\ requests' = requests \ {n} /\ log' \subseteq log \cup {n.part}
      BY <1>6, CommitFrame DEF commitOps, keeper
    <2>2. ASSUME NEW m \in requests, m # n
          PROVE  Fits(m, m.part.insert)
      <3> DEFINE i == m.part.insert
      <3>1. m.part # n.part /\ m.part \notin log
        BY <2>2 DEF Requests
      <3>2. /\ insert'[i].stage = insert[i].stage /\ insert'[i].number = insert[i].number
            /\ insert'[i].session = insert[i].session
            /\ Part(i) = m.part => insert'[i].answer = insert[i].answer
        BY <1>2, <1>6, <3>1, CommitEffect
      <3> QED
        BY <1>2, <2>1, <3>1, <3>2 DEF Fits, Requests, Connected, Part
    <2> QED
      BY <1>2, <1>3, <2>1, <2>2 DEF Requests
  <1>7. ASSUME NEW r \in Replicas, ReplicaStep(r)
        PROVE  Requests'
    <2>1. UNCHANGED <<log, requests, insert>>
      BY <1>7, ReplicaFrame
    <2>2. ASSUME NEW m \in requests
          PROVE  m.part \in DOMAIN local[R(m.part.insert)] => m.part \in DOMAIN local'[R(m.part.insert)]
      <3> DEFINE q == R(m.part.insert)
      <3>1. q \in Replicas /\ m.part \notin log
        BY <1>1, <1>2 DEF Requests
      <3>2. CASE removeFailedQuorumParts(r)
        BY <3>1, <3>2, WithoutEffect DEF removeFailedQuorumParts, Quorums
      <3>3. CASE \E p \in log : fetchPart(r, p)
        BY <3>1, <3>3, WithEffect DEF fetchPart
      <3>4. CASE \E p \in to_check[r] : checkPart(r, p)
        <4>1. PICK p \in to_check[r] : checkPart(r, p)
          BY <3>4
        <4>2. m.part # p /\ (UNCHANGED local \/ local' = Without(r, {p}))
          BY <4>1 DEF checkPart
        <4> QED
          BY <3>1, <4>2, WithoutEffect
      <3> QED
        BY <1>7, <3>2, <3>3, <3>4, ReplicaFrame
    <2>3. \A q \in Replicas : \/ session'[q] = session[q] /\ expired'[q] = expired[q]
                             \/ session'[q] = session[q] + 1
      BY <1>7, ReplicaFrame DEF setZooKeeper, TypeOK
    <2>4. ASSUME NEW m \in requests
          PROVE  Fits(m, m.part.insert)
      BY <1>1, <1>2, <2>1, <2>2, <2>3 DEF Fits, Requests, Connected, Part
    <2> QED
      BY <1>2, <1>3, <2>1, <2>4 DEF Requests
  <1>8. ASSUME NEW r \in Replicas, Fault(r)
        PROVE  Requests'
    <2>1. UNCHANGED log /\ requests' \subseteq requests
      BY <1>8, FaultFrame
    <2>2. ASSUME NEW m \in requests
          PROVE  Fits(m, m.part.insert)
      <3> DEFINE i == m.part.insert
                 q == R(i)
      <3>1. i \in Inserts /\ q \in Replicas /\ m.session \in Nat /\ session[q] \in Nat
        BY <1>1, <1>2
      <3>2. insert'[i].number = insert[i].number /\ insert'[i].session = insert[i].session
        BY <1>8, <3>1, LossEffect, CrashEffect, FaultFrame
      <3>3. \/ /\ session'[q] = session[q] /\ DOMAIN local'[q] = DOMAIN local[q]
               /\ \/ expired'[q]
                  \/ expired'[q] = expired[q] /\ insert'[i] = insert[i]
            \/ session'[q] = session[q] + 1
        <4>1. CASE loseConnection(r)
          BY <3>1, <4>1, LossEffect DEF loseConnection, TypeOK
        <4>2. CASE crash(r)
          BY <3>1, <4>2, CrashEffect DEF crash, TypeOK
        <4>3. CASE startServer(r)
          <5>1. CASE q = r
            BY <3>1, <4>3, <5>1 DEF startServer, TypeOK
          <5>2. CASE q # r
            <6>1. local'[q] = local[q]
              BY <3>1, <4>3, <5>2, WithoutEffect DEF startServer
            <6>2. UNCHANGED insert
              BY <4>3 DEF startServer
            <6> QED
              BY <3>1, <4>3, <5>2, <6>1, <6>2 DEF startServer, TypeOK
          <5> QED
            BY <5>1, <5>2
        <4>4. CASE \E s \in 1..session[r] : expireSession(r, s)
          BY <4>4 DEF expireSession, server
        <4> QED
          BY <1>8, <4>1, <4>2, <4>3, <4>4 DEF Fault
      <3> QED
        BY <2>1, <3>1, <3>2, <3>3 DEF Fits, Requests, Connected, Part
    <2> QED
      BY <1>2, <1>3, <2>1, <2>2 DEF Requests
  <1> QED
    BY <1>4, <1>5, <1>6, <1>7, <1>8, AllSteps

(* The part of an insert is not taken away behind its back.                *)
LEMMA AnswersStep ==
    ASSUME IInv, [Next]_vars
    PROVE  Answers'
  <1> TypeOK /\ FreshNumbers /\ Sessions /\ Requests /\ Answers /\ Kept /\ Quorums
    BY DEF IInv
  <1>1. \A j \in Inserts : insert'[j].replica = insert[j].replica /\ R(j) \in Replicas /\ Part(j).insert = j
    BY InsertsStay, FieldTypes DEF InsertsSteady, Steady, Part
  <1> DEFINE AnswerTrue(j) ==
        /\ insert'[j].stage = "locked" => insert'[j].answer = "none"
        /\ insert'[j].stage \in {"sent", "verify", "recover"} => Part(j)' \in DOMAIN local'[R(j)] \cup failed'
        /\ insert'[j].stage = "sent" =>
              IF insert'[j].answer = "ok" THEN Part(j)' \in zk_parts'[R(j)] ELSE Part(j)' \notin log'
        /\ insert'[j].stage = "recover" =>
              \/ insert'[j].answer = "exists" /\ Part(j)' \in zk_parts'[R(j)] \cup failed'
              \/ insert'[j].answer = "missing" /\ Part(j)' \notin zk_parts'[R(j)]
  <1>2. ASSUME \A j \in Inserts : AnswerTrue(j)
        PROVE  Answers'
    BY <1>1, <1>2 DEF Answers, R
  <1>3. CASE UNCHANGED vars
    BY <1>3 DEF Answers, vars, keeper, server, R, Part
  <1>4. ASSUME NEW k \in Inserts, InsertStep(k), NEW j \in Inserts
        PROVE  AnswerTrue(j)
    <2>1. UNCHANGED <<log, zk_parts, failed>>
      BY <1>4, InsertFrame
    <2>2. CASE j = k
      <3>1. CASE insert'[k].stage = "locked"
        BY <1>4, <2>2, <3>1, StageSteps
      <3>2. CASE sendCommit(k) /\ insert'[k].number = insert[k].number /\ insert'[k].answer = insert[k].answer
                 /\ insert'[k].stage \in {"sent", "verify"}
        <4>1. insert[k].stage = "locked" /\ local' = With(R(k), Part(k), "PreActive")
          BY <3>2 DEF sendCommit
        <4>2. Part(k) \in DOMAIN local'[R(k)]
          BY <1>1, <4>1, WithEffect
        <4> QED
          BY <2>1, <2>2, <3>2, <4>1, <4>2 DEF Answers, FreshNumbers, Part
      <3>3. CASE lookForPart(k) /\ insert'[k].number = insert[k].number /\ insert'[k].stage = "recover"
                 /\ insert'[k].answer = (IF Part(k) \in zk_parts[R(k)] THEN "exists" ELSE "missing")
        <4>1. UNCHANGED local /\ insert[k].stage = "verify"
          BY <3>3 DEF lookForPart, server
        <4> QED
          BY <2>1, <2>2, <3>3, <4>1 DEF Answers, Part
      <3>4. CASE insert'[k].stage \in {"lock", "resolve", "quorum", "active", "done"}
        BY <2>2, <3>4
      <3> QED
        BY <1>4, <3>1, <3>2, <3>3, <3>4, StageSteps
    <2>3. CASE j # k
      <3>1. insert'[j] = insert[j] /\ Part(j)' = Part(j) /\ Part(j) # Part(k)
        BY <1>1, <1>4, <2>3, StageSteps DEF Part
      <3>2. Part(j) \in DOMAIN local[R(j)] => Part(j) \in DOMAIN local'[R(j)]
        <4>1. \/ UNCHANGED local
              \/ \E s : local' = With(R(k), Part(k), s)
              \/ local' = Without(R(k), {Part(k)})
          BY <1>4, InsertFrame DEF sendCommit, receiveAnswer, recover, lastRetry
        <4>2. CASE \E s : local' = With(R(k), Part(k), s)
          BY <1>1, <4>2, WithEffect
        <4>3. CASE local' = Without(R(k), {Part(k)})
          <5>1. /\ \A p \in Replicas : p # R(k) => local'[p] = local[p]
                /\ DOMAIN local'[R(k)] = DOMAIN local[R(k)] \ {Part(k)}
            BY <1>1, <4>3, WithoutEffect
          <5> QED
            BY <1>1, <3>1, <5>1
        <4> QED
          BY <4>1, <4>2, <4>3
      <3> QED
        BY <2>1, <3>1, <3>2 DEF Answers
    <2> QED
      BY <2>2, <2>3
  <1>5. ASSUME NEW n \in requests, commitOps(n), NEW j \in Inserts
        PROVE  AnswerTrue(j)
    <2>1. UNCHANGED <<failed, local>>
      BY <1>5, CommitFrame
    <2>2. /\ insert'[j].stage = insert[j].stage /\ Part(j)' = Part(j)
          /\ insert'[j].answer = IF insert[j].stage = "sent" /\ Part(j) = n.part
                                 THEN Answer(n) ELSE insert[j].answer
      BY <1>5, CommitEffect DEF Part
    <2>3. n.part \notin log /\ n.part.insert \in Inserts
      BY <1>5, CommitEffect DEF Requests
    <2>4. CASE Answer(n) = "ok"
      <3>1. /\ log' = log \cup {n.part}
            /\ \A r \in Replicas : zk_parts'[r] =
                  IF r = R(n.part.insert) THEN zk_parts[r] \cup {n.part} ELSE zk_parts[r]
        BY <1>5, <2>4 DEF commitOps, TypeOK
      <3>2. n.session = session[R(n.part.insert)]
        BY <2>4 DEF Answer
      <3>3. CASE Part(j) = n.part
        <4>1. j = n.part.insert
          BY <1>1, <3>3
        <4>2. insert[j].stage # "recover"
          <5>1. insert[j].stage = "recover" => insert[j].session < session[R(j)]
            BY DEF Sessions
          <5>2. n.session = insert[j].session
            BY <3>3, <4>1 DEF Requests
          <5> QED
            BY <1>1, <3>2, <4>1, <5>1, <5>2, FieldTypes
        <4>3. insert[j].stage = "sent" => Part(j)' \in zk_parts'[R(j)]
          BY <1>1, <2>2, <3>1, <3>3, <4>1
        <4> QED
          BY <2>1, <2>2, <2>4, <3>3, <4>2, <4>3 DEF Answers
      <3>4. CASE Part(j) # n.part
        <4>1. /\ Part(j) \in zk_parts'[R(j)] <=> Part(j) \in zk_parts[R(j)]
              /\ Part(j) \in log' <=> Part(j) \in log
          BY <1>1, <3>1, <3>4
        <4> QED
          BY <2>1, <2>2, <3>4, <4>1 DEF Answers
      <3> QED
        BY <3>3, <3>4
    <2>5. CASE Answer(n) # "ok"
      <3>1. UNCHANGED <<log, zk_parts>>
        BY <1>5, <2>5 DEF commitOps, keeper
      <3> QED
        BY <2>1, <2>2, <2>3, <2>5, <3>1 DEF Answers
    <2> QED
      BY <2>4, <2>5
  <1>6. ASSUME NEW r \in Replicas, ReplicaStep(r), NEW j \in Inserts
        PROVE  AnswerTrue(j)
    <2>1. UNCHANGED <<log, insert>> /\ Part(j)' = Part(j)
      BY <1>6, ReplicaFrame DEF Part
    <2>2. failed \subseteq failed'
      BY <1>6, ReplicaFrame DEF updateQuorumIfWeHavePart, updateQuorum, failQuorum
    <2>3. CASE UNCHANGED <<local, zk_parts>>
      BY <2>1, <2>2, <2>3 DEF Answers
    <2>4. CASE removeFailedQuorumParts(r)
      <3>1. /\ \A q \in Replicas : q # r => local'[q] = local[q] /\ zk_parts'[q] = zk_parts[q]
            /\ DOMAIN local'[r] = DOMAIN local[r] \ failed /\ zk_parts'[r] = zk_parts[r] \ failed
            /\ restarting[r] = "connected" /\ UNCHANGED failed
        BY <2>4, WithoutEffect DEF removeFailedQuorumParts, Restart, TypeOK
      <3>2. insert[j].stage = "sent" => R(j) # r
        BY <3>1 DEF Sessions
      <3> QED
        BY <1>1, <2>1, <3>1, <3>2 DEF Answers
    <2>5. ASSUME NEW p \in log, fetchPart(r, p)
          PROVE  AnswerTrue(j)
      <3>1. /\ \A q \in Replicas : q # r => local'[q] = local[q] /\ zk_parts'[q] = zk_parts[q]
            /\ DOMAIN local'[r] = DOMAIN local[r] \cup {p} /\ zk_parts'[r] = zk_parts[r] \cup {p}
        BY <2>5, WithEffect DEF fetchPart, TypeOK
      <3>2. p \notin DOMAIN local[r] \cup failed
        BY <2>5 DEF fetchPart, Missing
      <3>3. insert[j].stage = "recover" /\ R(j) = r => Part(j) # p
        BY <3>2 DEF Answers
      <3> QED
        BY <1>1, <2>1, <2>2, <3>1, <3>3 DEF Answers
    <2>6. ASSUME NEW p \in to_check[r], checkPart(r, p)
          PROVE  AnswerTrue(j)
      <3>1. insert[j].stage \in {"sent", "verify", "recover"} => Part(j) # p
        BY <1>1 DEF Kept
      <3>2. UNCHANGED zk_parts /\ (UNCHANGED local \/ local' = Without(r, {p}))
        BY <2>6 DEF checkPart, keeper
      <3>3. Part(j) \in DOMAIN local[R(j)] /\ Part(j) # p => Part(j) \in DOMAIN local'[R(j)]
        <4>1. CASE local' = Without(r, {p})
          <5>1. /\ \A q \in Replicas : q # r => local'[q] = local[q]
                /\ DOMAIN local'[r] = DOMAIN local[r] \ {p}
            BY <4>1, WithoutEffect
          <5> QED
            BY <1>1, <5>1
        <4> QED
          BY <3>2, <4>1
      <3> QED
        BY <2>1, <2>2, <3>1, <3>2, <3>3 DEF Answers
    <2> QED
      BY <1>6, <2>3, <2>4, <2>5, <2>6, ReplicaFrame
  <1>7. ASSUME NEW r \in Replicas, Fault(r), NEW j \in Inserts
        PROVE  AnswerTrue(j)
    <2>1. UNCHANGED <<log, failed>>
      BY <1>7, FaultFrame
    <2>2. CASE loseConnection(r)
      <3>1. UNCHANGED <<zk_parts, local>>
        BY <2>2 DEF loseConnection, keeper
      <3>2. \/ insert'[j] = insert[j]
            \/ /\ insert[j].stage = "sent" /\ insert'[j].stage = "verify"
               /\ insert'[j].number = insert[j].number
        BY <2>2, LossEffect
      <3> QED
        BY <2>1, <3>1, <3>2 DEF Answers, Part
    <2>3. CASE crash(r)
      <3>1. UNCHANGED zk_parts /\ \A q \in Replicas : DOMAIN local'[q] = DOMAIN local[q]
        BY <2>3 DEF crash, keeper, TypeOK
      <3>2. insert'[j] = insert[j] \/ insert'[j].stage = "done"
        BY <2>3, CrashEffect
      <3> QED
        BY <1>1, <2>1, <3>1, <3>2 DEF Answers, Part
    <2>4. CASE startServer(r)
      <3>3. \A q \in Replicas : q # r => local'[q] = local[q]
        BY <2>4, WithoutEffect DEF startServer
      <3>4. \A q \in Replicas : q # r => zk_parts'[q] = zk_parts[q]
        BY <2>4 DEF startServer, TypeOK
      <3>1. /\ \A q \in Replicas : q # r => local'[q] = local[q] /\ zk_parts'[q] = zk_parts[q]
            /\ UNCHANGED insert
        BY <2>4, <3>3, <3>4 DEF startServer
      <3>2. R(j) = r => insert[j].stage = "done"
        BY <2>4 DEF Sessions, startServer
      <3> QED
        BY <1>1, <2>1, <3>1, <3>2 DEF Answers, Part
    <2>5. CASE \E s \in 1..session[r] : expireSession(r, s)
      BY <2>1, <2>5 DEF expireSession, server, Answers, Part
    <2> QED
      BY <1>7, <2>2, <2>3, <2>4, <2>5 DEF Fault
  <1> HIDE DEF AnswerTrue
  <1> QED
    BY <1>2, <1>3, <1>4, <1>5, <1>6, <1>7, AllSteps

(* ZooKeeper and the working sets agree but for the parts that are being   *)
(* worked on.                                                              *)
LEMMA LocalStep ==
    ASSUME IInv, [Next]_vars
    PROVE  \A r \in Replicas : zk_parts'[r] \subseteq log' \cap DOMAIN local'[r]
  <1> TypeOK /\ FreshNumbers /\ Sessions /\ Requests /\ Answers /\ Kept /\ Quorums
    BY DEF IInv
  <1>1. \A j \in Inserts : R(j) \in Replicas
    BY FieldTypes
  <1>2. \A r \in Replicas : zk_parts[r] \subseteq log /\ zk_parts[r] \subseteq DOMAIN local[r]
    BY DEF Kept
  <1>3. CASE UNCHANGED <<local, zk_parts, log>>
    BY <1>2, <1>3
  <1>4. ASSUME NEW k \in Inserts, InsertStep(k), NEW r \in Replicas
        PROVE  zk_parts'[r] \subseteq log' \cap DOMAIN local'[r]
    <2>1. UNCHANGED <<log, zk_parts>>
      BY <1>4, InsertFrame
    <2>2. CASE \E s : local' = With(R(k), Part(k), s)
      <3>1. /\ \A q \in Replicas : q # R(k) => local'[q] = local[q]
            /\ DOMAIN local'[R(k)] = DOMAIN local[R(k)] \cup {Part(k)}
        BY <1>1, <2>2, WithEffect
      <3> QED
        BY <1>2, <2>1, <3>1
    <2>3. CASE local' = Without(R(k), {Part(k)}) /\ Part(k) \notin zk_parts[R(k)]
      <3>1. /\ \A q \in Replicas : q # R(k) => local'[q] = local[q]
            /\ DOMAIN local'[R(k)] = DOMAIN local[R(k)] \ {Part(k)}
        BY <1>1, <2>3, WithoutEffect
      <3> QED
        BY <1>2, <2>1, <2>3, <3>1
    <2>4. CASE UNCHANGED local
      BY <1>2, <2>1, <2>4
    <2>5. CASE receiveAnswer(k)
      <3>1. insert[k].stage = "sent" /\ (insert[k].answer # "ok" => Part(k) \notin log)
        BY <2>5 DEF receiveAnswer, Answers
      <3>2. insert[k].answer # "ok" => Part(k) \notin zk_parts[R(k)]
        BY <1>1, <1>2, <3>1
      <3> QED
        BY <2>2, <2>3, <2>5, <3>2 DEF receiveAnswer
    <2>6. CASE recover(k)
      <3>1. insert[k].stage = "recover" /\ (insert[k].answer = "missing" => Part(k) \notin zk_parts[R(k)])
        BY <2>6 DEF recover, Answers
      <3> QED
        BY <2>2, <2>3, <2>4, <2>6, <3>1 DEF recover
    <2> QED
      BY <1>4, <2>2, <2>4, <2>5, <2>6, InsertFrame DEF sendCommit, lastRetry
  <1>5. ASSUME NEW n \in requests, commitOps(n), NEW r \in Replicas
        PROVE  zk_parts'[r] \subseteq log' \cap DOMAIN local'[r]
    <2>1. UNCHANGED local /\ n.part.insert \in Inserts
      BY <1>5, CommitFrame, CommitEffect
    <2>2. CASE Answer(n) = "ok"
      <3>1. /\ log' = log \cup {n.part}
            /\ \A q \in Replicas : zk_parts'[q] =
                  IF q = R(n.part.insert) THEN zk_parts[q] \cup {n.part} ELSE zk_parts[q]
        BY <1>5, <2>2 DEF commitOps, TypeOK
      <3>2. n.session = session[R(n.part.insert)]
        BY <2>2 DEF Answer
      <3>3. n.part \in DOMAIN local[R(n.part.insert)]
        BY <3>2 DEF Requests
      <3> QED
        BY <1>2, <2>1, <3>1, <3>3
    <2>3. CASE Answer(n) # "ok"
      <3>1. UNCHANGED <<log, zk_parts>>
        BY <1>5, <2>3 DEF commitOps, keeper
      <3> QED
        BY <1>2, <2>1, <3>1
    <2> QED
      BY <2>2, <2>3
  <1>6. ASSUME NEW q \in Replicas, ReplicaStep(q), NEW r \in Replicas
        PROVE  zk_parts'[r] \subseteq log' \cap DOMAIN local'[r]
    <2>1. UNCHANGED log
      BY <1>6, ReplicaFrame
    <2>2. CASE removeFailedQuorumParts(q)
      <3>1. /\ \A s \in Replicas : s # q => local'[s] = local[s]
            /\ DOMAIN local'[q] = DOMAIN local[q] \ failed
        BY <2>2, WithoutEffect DEF removeFailedQuorumParts
      <3>2. /\ \A s \in Replicas : s # q => zk_parts'[s] = zk_parts[s]
            /\ zk_parts'[q] = zk_parts[q] \ failed
        BY <2>2 DEF removeFailedQuorumParts, TypeOK
      <3> QED
        BY <1>2, <2>1, <3>1, <3>2
    <2>3. ASSUME NEW p \in log, fetchPart(q, p)
          PROVE  zk_parts'[r] \subseteq log' \cap DOMAIN local'[r]
      <3>1. /\ \A s \in Replicas : s # q => local'[s] = local[s]
            /\ DOMAIN local'[q] = DOMAIN local[q] \cup {p}
        BY <2>3, WithEffect DEF fetchPart
      <3>2. /\ \A s \in Replicas : s # q => zk_parts'[s] = zk_parts[s]
            /\ zk_parts'[q] = zk_parts[q] \cup {p}
        BY <2>3 DEF fetchPart, TypeOK
      <3> QED
        BY <1>2, <2>1, <3>1, <3>2
    <2>4. ASSUME NEW p \in to_check[q], checkPart(q, p)
          PROVE  zk_parts'[r] \subseteq log' \cap DOMAIN local'[r]
      <3>1. UNCHANGED zk_parts
        BY <2>4 DEF checkPart, keeper
      <3>2. UNCHANGED local \/ (p \notin zk_parts[q] /\ local' = Without(q, {p}))
        BY <2>4 DEF checkPart
      <3>3. CASE UNCHANGED local
        BY <1>2, <2>1, <3>1, <3>3
      <3>4. CASE p \notin zk_parts[q] /\ local' = Without(q, {p})
        <4>1. /\ \A s \in Replicas : s # q => local'[s] = local[s]
              /\ DOMAIN local'[q] = DOMAIN local[q] \ {p}
          BY <3>4, WithoutEffect
        <4> QED
          BY <1>2, <2>1, <3>1, <3>4, <4>1
      <3> QED
        BY <3>2, <3>3, <3>4
    <2>5. CASE UNCHANGED <<local, zk_parts>>
      BY <1>3, <2>1, <2>5
    <2>6. \/ removeFailedQuorumParts(q)
          \/ \E p \in log : fetchPart(q, p)
          \/ \E p \in to_check[q] : checkPart(q, p)
          \/ UNCHANGED <<local, zk_parts>>
      BY <1>6, ReplicaFrame DEF checkPart, keeper
    <2> QED
      BY <2>2, <2>3, <2>4, <2>5, <2>6
  <1>7. ASSUME NEW q \in Replicas, Fault(q), NEW r \in Replicas
        PROVE  zk_parts'[r] \subseteq log' \cap DOMAIN local'[r]
    <2>1. UNCHANGED log
      BY <1>7, FaultFrame
    <2>2. CASE crash(q)
      <3>1. \A s \in Replicas : DOMAIN local'[s] = DOMAIN local[s]
        BY <2>2 DEF crash, TypeOK
      <3>2. UNCHANGED zk_parts
        BY <2>2 DEF crash, keeper
      <3> QED
        BY <1>2, <2>1, <3>1, <3>2
    <2>3. CASE startServer(q)
      <3>1. /\ \A s \in Replicas : s # q => local'[s] = local[s]
            /\ DOMAIN local'[q] = DOMAIN local[q] \ (DOMAIN local[q] \ zk_parts[q])
        <4> DEFINE gone == DOMAIN local[q] \ zk_parts[q]
        <4>1. local' = Without(q, gone)
          BY <2>3 DEF startServer
        <4> HIDE DEF gone
        <4>2. /\ \A s \in Replicas : s # q => local'[s] = local[s]
              /\ DOMAIN local'[q] = DOMAIN local[q] \ gone
          BY <4>1, WithoutEffect
        <4> QED
          BY <4>2 DEF gone
      <3>2. /\ \A s \in Replicas : s # q => zk_parts'[s] = zk_parts[s]
            /\ zk_parts'[q] = zk_parts[q] \cap DOMAIN local[q]
        BY <2>3 DEF startServer, TypeOK
      <3> QED
        BY <1>2, <2>1, <3>1, <3>2
    <2>4. CASE UNCHANGED <<local, zk_parts>>
      BY <1>3, <2>1, <2>4
    <2> QED
      BY <1>7, <2>2, <2>3, <2>4, FaultFrame
  <1> QED
    BY <1>3, <1>4, <1>5, <1>6, <1>7, AllSteps DEF vars, keeper, server

(* What the part check thread has to look at, the Active parts, and the    *)
(* parts with an entry in the log.                                         *)
LEMMA KeptStep ==
    ASSUME IInv, [Next]_vars
    PROVE  Kept'
  <1> TypeOK /\ FreshNumbers /\ Sessions /\ Requests /\ Answers /\ Kept /\ Quorums
    BY DEF IInv
  <1>1. \A j \in Inserts : /\ R(j) \in Replicas /\ insert'[j].replica = insert[j].replica
                           /\ Part(j).insert = j
                           /\ insert[j].stage = "done" => insert'[j].stage = "done"
    BY InsertsStay, FieldTypes DEF InsertsSteady, Steady, Part
  <1>2. \A p \in AnyPart : p.insert \in Inserts
    BY DEF AnyPart
  <1> DEFINE Looked(r) == \A p \in to_check'[r] : r = R(p.insert) /\ insert'[p.insert].stage = "done"
             Shown(r) == restarting'[r] # "stopped" =>
                            \A p \in DOMAIN local'[r] : local'[r][p] = "Active" => p \in zk_parts'[r] \cup to_check'[r]
             Home(p) == p \in zk_parts'[R(p.insert)]
  <1>3. ASSUME NEW r \in Replicas
        PROVE  Looked(r)
    <2>1. \A p \in to_check[r] : p.insert \in Inserts
      BY <1>2 DEF TypeOK
    <2>2. CASE to_check'[r] \subseteq to_check[r]
      BY <1>1, <2>1, <2>2 DEF Kept
    <2>3. ASSUME NEW k \in Inserts, lastRetry(k)
          PROVE  Looked(r)
      <3>1. /\ to_check' = [to_check EXCEPT ![R(k)] = @ \cup {Part(k)}]
            /\ Ends(k, "unknown")
        BY <2>3, InsertEffects DEF lastRetry
      <3>2. insert'[k].stage = "done"
        BY <3>1, BecomesAt DEF Ends
      <3>3. to_check'[r] = IF r = R(k) THEN to_check[r] \cup {Part(k)} ELSE to_check[r]
        BY <3>1 DEF TypeOK
      <3> QED
        BY <1>1, <2>1, <3>2, <3>3 DEF Kept
    <2>4. \/ to_check'[r] \subseteq to_check[r]
          \/ \E k \in Inserts : lastRetry(k)
      <3>1. ASSUME NEW q \in Replicas, crash(q)
            PROVE  to_check'[r] \subseteq to_check[r]
        BY <3>1 DEF crash, TypeOK
      <3>2. ASSUME NEW q \in Replicas, NEW p, checkPart(q, p)
            PROVE  to_check'[r] \subseteq to_check[r]
        BY <3>2 DEF checkPart, TypeOK
      <3>3. ASSUME NEW q \in Replicas, ReplicaStep(q) \/ Fault(q)
            PROVE  (\E p : checkPart(q, p)) \/ crash(q) \/ UNCHANGED to_check
        BY <3>3, ReplicaFrame, FaultFrame DEF removeFailedQuorumParts, fetchPart, startServer
      <3>4. ASSUME NEW n \in requests, commitOps(n)
            PROVE  UNCHANGED to_check
        BY <3>4, CommitFrame
      <3> QED
        BY <3>1, <3>2, <3>3, <3>4, InsertFrame, AllSteps DEF vars, server
    <2> QED
      BY <2>2, <2>3, <2>4
  <1>4. ASSUME NEW p \in log' \ failed'
        PROVE  Home(p)
    <2>1. /\ \A r \in Replicas : zk_parts[r] \subseteq DOMAIN local[r]
          /\ p \in log \ failed => p \in zk_parts[R(p.insert)]
      BY DEF Kept
    <2>2. failed \subseteq failed'
      <3>1. ASSUME NEW q \in Replicas, ReplicaStep(q)
            PROVE  failed \subseteq failed'
        BY <3>1, ReplicaFrame DEF updateQuorumIfWeHavePart, updateQuorum, failQuorum
      <3> QED
        BY <3>1, AllSteps, InsertFrame, CommitFrame, FaultFrame DEF vars, keeper
    <2>3. CASE UNCHANGED <<log, zk_parts, insert>>
      BY <2>1, <2>2, <2>3 DEF R
    <2>4. ASSUME NEW n \in requests, commitOps(n)
          PROVE  Home(p)
      <3>1. n.part.insert \in Inserts
        BY <2>4, CommitEffect
      <3>2. CASE Answer(n) = "ok"
        <4>1. /\ log' = log \cup {n.part}
              /\ \A q \in Replicas : zk_parts'[q] =
                    IF q = R(n.part.insert) THEN zk_parts[q] \cup {n.part} ELSE zk_parts[q]
          BY <2>4, <3>2 DEF commitOps, TypeOK
        <4>2. CASE p = n.part
          BY <1>1, <3>1, <4>1, <4>2
        <4>3. CASE p # n.part
          <5>1. p \in log \ failed /\ p.insert \in Inserts
            BY <1>2, <2>2, <4>1, <4>3 DEF TypeOK
          <5> QED
            BY <1>1, <2>1, <4>1, <5>1
        <4> QED
          BY <4>2, <4>3
      <3>3. CASE Answer(n) # "ok"
        <4>1. UNCHANGED <<log, zk_parts>>
          BY <2>4, <3>3 DEF commitOps, keeper
        <4>2. p \in log \ failed /\ p.insert \in Inserts
          BY <1>2, <2>2, <4>1 DEF TypeOK
        <4> QED
          BY <1>1, <2>1, <4>1, <4>2
      <3> QED
        BY <3>2, <3>3
    <2>5. ASSUME UNCHANGED log
          PROVE  p \in log \ failed /\ p.insert \in Inserts /\ R(p.insert) \in Replicas
      BY <1>1, <1>2, <2>2, <2>5 DEF TypeOK
    <2>6. ASSUME NEW k \in Inserts, InsertStep(k)
          PROVE  Home(p)
      <3>1. UNCHANGED <<log, zk_parts>>
        BY <2>6, InsertFrame
      <3> QED
        BY <1>1, <2>1, <2>5, <3>1
    <2>7. ASSUME NEW q \in Replicas, ReplicaStep(q) \/ Fault(q)
          PROVE  Home(p)
      <3>1. UNCHANGED log
        BY <2>7, ReplicaFrame, FaultFrame
      <3>2. CASE UNCHANGED zk_parts
        BY <1>1, <2>1, <2>5, <3>1, <3>2
      <3>3. CASE removeFailedQuorumParts(q)
        <4>1. \A r \in Replicas : zk_parts[r] \ failed \subseteq zk_parts'[r]
          BY <3>3 DEF removeFailedQuorumParts, TypeOK
        <4> QED
          BY <1>1, <2>1, <2>5, <3>1, <4>1
      <3>4. CASE \E s \in log : fetchPart(q, s)
        <4>1. \A r \in Replicas : zk_parts[r] \subseteq zk_parts'[r]
          BY <3>4 DEF fetchPart, TypeOK
        <4> QED
          BY <1>1, <2>1, <2>5, <3>1, <4>1
      <3>5. CASE startServer(q)
        <4>1. \A r \in Replicas : zk_parts[r] \subseteq zk_parts'[r]
          BY <2>1, <3>5 DEF startServer, TypeOK
        <4> QED
          BY <1>1, <2>1, <2>5, <3>1, <4>1
      <3> QED
        BY <2>7, <3>2, <3>3, <3>4, <3>5, ReplicaFrame, FaultFrame
    <2> QED
      BY <2>3, <2>4, <2>6, <2>7, AllSteps DEF vars, keeper
  <1> HIDE DEF Shown
  <1>5. ASSUME \A r \in Replicas : Shown(r)
        PROVE  Kept'
    <2>1. \A p \in log' \ failed' : p.insert \in Inserts
      BY TypeStep, <1>2 DEF TypeOK
    <2>2. \A p \in log' \ failed' : p \in zk_parts'[R(p.insert)']
      BY <1>1, <1>4, <2>1 DEF R
    <2>3. \A r \in Replicas : \A p \in to_check'[r] : r = R(p.insert)' /\ insert'[p.insert].stage = "done"
      <3>1. \A r \in Replicas : \A p \in to_check'[r] : p.insert \in Inserts
        BY TypeStep, <1>2 DEF TypeOK
      <3> QED
        BY <1>1, <1>3, <3>1 DEF R
    <2> QED
      BY <1>5, <2>2, <2>3, LocalStep DEF Kept, Shown
  <1> HIDE DEF Looked, Home
  <1>6. ASSUME NEW r \in Replicas, restarting'[r] # "stopped" => restarting[r] # "stopped",
               DOMAIN local'[r] \subseteq DOMAIN local[r],
               \A p \in DOMAIN local'[r] : local'[r][p] = local[r][p],
               \A p \in DOMAIN local'[r] : p \in zk_parts[r] \cup to_check[r] => p \in zk_parts'[r] \cup to_check'[r]
        PROVE  Shown(r)
    BY <1>6 DEF Shown, Kept
  <1>7. ASSUME NEW r \in Replicas, NEW k, NEW s, local' = With(r, k, s), UNCHANGED restarting,
               s = "Active" => k \in zk_parts'[r] \cup to_check'[r],
               zk_parts[r] \subseteq zk_parts'[r], to_check[r] \subseteq to_check'[r]
        PROVE  Shown(r)
    <2>1. /\ DOMAIN local'[r] = DOMAIN local[r] \cup {k}
          /\ local'[r][k] = s
          /\ \A p \in DOMAIN local[r] : p # k => local'[r][p] = local[r][p]
      BY <1>7, WithEffect
    <2>2. ASSUME restarting[r] # "stopped", NEW p \in DOMAIN local'[r], local'[r][p] = "Active"
          PROVE  p \in zk_parts'[r] \cup to_check'[r]
      <3>1. CASE p = k
        BY <1>7, <2>1, <2>2, <3>1
      <3>2. CASE p # k
        <4>1. p \in DOMAIN local[r] /\ local[r][p] = "Active"
          BY <2>1, <2>2, <3>2
        <4>2. p \in zk_parts[r] \cup to_check[r]
          BY <2>2, <4>1 DEF Kept
        <4> QED
          BY <1>7, <4>2
      <3> QED
        BY <3>1, <3>2
    <2> QED
      BY <1>7, <2>2 DEF Shown
  <1>8. ASSUME NEW r \in Replicas, NEW ps, local' = Without(r, ps), restarting'[r] # "stopped" => restarting[r] # "stopped",
               \A p \in DOMAIN local[r] \ ps : p \in zk_parts[r] \cup to_check[r] => p \in zk_parts'[r] \cup to_check'[r]
        PROVE  Shown(r)
    <2>1. /\ DOMAIN local'[r] = DOMAIN local[r] \ ps
          /\ \A p \in DOMAIN local[r] \ ps : local'[r][p] = local[r][p]
      BY <1>8, WithoutEffect
    <2> QED
      BY <1>6, <1>8, <2>1
  <1>9. ASSUME NEW r \in Replicas, restarting'[r] = restarting[r], local'[r] = local[r],
               zk_parts[r] \subseteq zk_parts'[r], to_check'[r] = to_check[r]
        PROVE  Shown(r)
    BY <1>6, <1>9
  <1>10. ASSUME NEW k \in Inserts, InsertStep(k), NEW r \in Replicas
         PROVE  Shown(r)
    <2>1. UNCHANGED <<log, zk_parts, failed, restarting>>
      BY <1>10, InsertFrame
    <2>2. CASE r # R(k)
      <3>1. local'[r] = local[r]
        <4>1. \/ UNCHANGED local
              \/ \E s : local' = With(R(k), Part(k), s)
              \/ local' = Without(R(k), {Part(k)})
          BY <1>10, InsertFrame DEF sendCommit, receiveAnswer, recover, lastRetry
        <4> QED
          BY <1>1, <2>2, <4>1, WithEffect, WithoutEffect
      <3>2. to_check'[r] = to_check[r]
        BY <1>1, <1>10, <2>2, InsertFrame DEF lastRetry, TypeOK
      <3> QED
        BY <1>9, <2>1, <3>1, <3>2
    <2>3. CASE r = R(k)
      <3>1. CASE sendCommit(k)
        <4>1. local' = With(r, Part(k), "PreActive") /\ UNCHANGED to_check
          BY <2>3, <3>1 DEF sendCommit
        <4> QED
          BY <1>7, <2>1, <4>1
      <3>2. CASE lastRetry(k)
        <4>1. local' = With(r, Part(k), "Active") /\ to_check'[r] = to_check[r] \cup {Part(k)}
          BY <2>3, <3>2 DEF lastRetry, TypeOK
        <4> QED
          BY <1>7, <2>1, <4>1
      <3>3. CASE UNCHANGED <<local, to_check>>
        BY <1>9, <2>1, <3>3
      <3>4. CASE receiveAnswer(k) \/ recover(k)
        <4>1. UNCHANGED to_check
          BY <3>4 DEF receiveAnswer, recover
        <4>2. CASE local' = With(r, Part(k), "Active") /\ Part(k) \in zk_parts[r]
          BY <1>7, <2>1, <4>1, <4>2
        <4>3. CASE local' = Without(r, {Part(k)})
          BY <1>8, <2>1, <4>1, <4>3
        <4>4. CASE UNCHANGED local
          BY <3>3, <4>1, <4>4
        <4>5. receiveAnswer(k) => \/ local' = With(r, Part(k), "Active") /\ Part(k) \in zk_parts[r]
                                  \/ local' = Without(r, {Part(k)})
          <5>1. receiveAnswer(k) => insert[k].stage = "sent"
            BY DEF receiveAnswer
          <5> QED
            BY <2>3, <5>1 DEF receiveAnswer, Answers
        <4>6. recover(k) => \/ local' = With(r, Part(k), "Active") /\ Part(k) \in zk_parts[r]
                            \/ local' = Without(r, {Part(k)})
                            \/ UNCHANGED local
          <5>1. recover(k) => insert[k].stage = "recover"
            BY DEF recover
          <5>2. recover(k) /\ Part(k) \notin failed /\ insert[k].answer = "exists" => Part(k) \in zk_parts[r]
            BY <2>3, <5>1 DEF Answers
          <5> QED
            BY <2>3, <5>2 DEF recover
        <4> QED
          BY <3>4, <4>2, <4>3, <4>4, <4>5, <4>6
      <3> QED
        BY <1>10, <3>1, <3>2, <3>3, <3>4, InsertFrame
    <2> QED
      BY <2>2, <2>3
  <1>11. ASSUME NEW n \in requests, commitOps(n), NEW r \in Replicas
         PROVE  Shown(r)
    <2>1. UNCHANGED <<local, to_check, restarting>>
      BY <1>11, CommitFrame
    <2>2. zk_parts[r] \subseteq zk_parts'[r]
      <3>1. CASE Answer(n) = "ok"
        BY <1>11, <3>1 DEF commitOps, TypeOK
      <3>2. CASE Answer(n) # "ok"
        BY <1>11, <3>2 DEF commitOps, keeper
      <3> QED
        BY <3>1, <3>2
    <2> QED
      BY <1>9, <2>1, <2>2
  <1>12. ASSUME NEW q \in Replicas, ReplicaStep(q), NEW r \in Replicas
         PROVE  Shown(r)
    <2>1. restarting'[r] # "stopped" => restarting[r] # "stopped"
      BY <1>12, ReplicaFrame
         DEF partialShutdown, setZooKeeper, removeFailedQuorumParts, activateReplica, updateQuorumIfWeHavePart,
             Restart, TypeOK
    <2>2. CASE UNCHANGED <<local, to_check, zk_parts>>
      BY <1>6, <2>1, <2>2
    <2>3. CASE removeFailedQuorumParts(q)
      <3>1. local' = Without(q, failed) /\ UNCHANGED to_check
        BY <2>3 DEF removeFailedQuorumParts
      <3>2. /\ q = r => zk_parts'[r] = zk_parts[r] \ failed
            /\ q # r => zk_parts'[r] = zk_parts[r]
        BY <2>3 DEF removeFailedQuorumParts, TypeOK
      <3>3. CASE q = r
        BY <1>8, <2>1, <3>1, <3>2, <3>3
      <3>4. CASE q # r
        <4>1. local'[r] = local[r]
          BY <3>1, <3>4, WithoutEffect
        <4> QED
          BY <1>6, <2>1, <3>1, <3>2, <3>4, <4>1
      <3> QED
        BY <3>3, <3>4
    <2>4. ASSUME NEW p \in log, fetchPart(q, p)
          PROVE  Shown(r)
      <3>1. local' = With(q, p, "Active") /\ UNCHANGED <<to_check, restarting>>
        BY <2>4 DEF fetchPart
      <3>2. /\ q = r => zk_parts'[r] = zk_parts[r] \cup {p}
            /\ q # r => zk_parts'[r] = zk_parts[r]
        BY <2>4 DEF fetchPart, TypeOK
      <3>3. CASE q = r
        BY <1>7, <3>1, <3>2, <3>3
      <3>4. CASE q # r
        <4>1. local'[r] = local[r]
          BY <3>1, <3>4, WithEffect
        <4> QED
          BY <1>9, <3>1, <3>2, <3>4, <4>1
      <3> QED
        BY <3>3, <3>4
    <2>5. ASSUME NEW p \in to_check[q], checkPart(q, p)
          PROVE  Shown(r)
      <3>1. UNCHANGED <<zk_parts, restarting>>
        BY <2>5 DEF checkPart, keeper
      <3>2. /\ q = r => to_check'[r] = to_check[r] \ {p}
            /\ q # r => to_check'[r] = to_check[r]
        BY <2>5 DEF checkPart, TypeOK
      <3>3. CASE UNCHANGED local
        <4>1. q = r => p \in zk_parts[q] \/ p \notin DOMAIN local[r]
          <5>1. CASE p \in zk_parts[q]
            BY <5>1
          <5>2. CASE p \notin zk_parts[q]
            <6>1. local' = Without(q, {p})
              BY <2>5, <5>2 DEF checkPart
            <6>2. DOMAIN local'[q] = DOMAIN local[q] \ {p}
              BY <6>1, WithoutEffect
            <6> QED
              BY <3>3, <6>2
          <5> QED
            BY <5>1, <5>2
        <4> QED
          BY <1>6, <3>1, <3>2, <3>3, <4>1
      <3>4. CASE local' = Without(q, {p})
        <4>1. CASE q = r
          BY <1>8, <3>1, <3>2, <3>4, <4>1
        <4>2. CASE q # r
          <5>1. local'[r] = local[r]
            BY <3>4, <4>2, WithoutEffect
          <5> QED
            BY <1>9, <3>1, <3>2, <4>2, <5>1
        <4> QED
          BY <4>1, <4>2
      <3> QED
        BY <2>5, <3>3, <3>4 DEF checkPart
    <2>6. \/ removeFailedQuorumParts(q)
          \/ \E p \in log : fetchPart(q, p)
          \/ \E p \in to_check[q] : checkPart(q, p)
          \/ UNCHANGED <<local, to_check, zk_parts>>
      BY <1>12, ReplicaFrame DEF checkPart, keeper
    <2> QED
      BY <2>2, <2>3, <2>4, <2>5, <2>6
  <1>13. ASSUME NEW q \in Replicas, Fault(q), NEW r \in Replicas
         PROVE  Shown(r)
    <2>1. CASE loseConnection(q)
      BY <1>9, <2>1 DEF loseConnection, keeper
    <2>2. CASE \E s \in 1..session[q] : expireSession(q, s)
      BY <1>9, <2>2 DEF expireSession, server
    <2>3. CASE crash(q)
      <3>1. CASE r = q
        <4>1. restarting'[r] = "stopped"
          BY <2>3, <3>1 DEF crash, TypeOK
        <4> QED
          BY <4>1 DEF Shown
      <3>2. CASE r # q
        BY <1>9, <2>3, <3>2 DEF crash, keeper, TypeOK
      <3> QED
        BY <3>1, <3>2
    <2>4. CASE startServer(q)
      <3> DEFINE gone == DOMAIN local[q] \ zk_parts[q]
      <3>1. local' = Without(q, gone)
        BY <2>4 DEF startServer
      <3> HIDE DEF gone
      <3>2. /\ \A s \in Replicas : s # q => local'[s] = local[s]
            /\ DOMAIN local'[q] = DOMAIN local[q] \ gone
        BY <3>1, WithoutEffect
      <3>3. UNCHANGED to_check /\ (r # q => restarting'[r] = restarting[r])
        BY <2>4 DEF startServer, TypeOK
      <3>4. CASE r = q
        <4>1. zk_parts'[r] = zk_parts[r] \cap DOMAIN local[r]
          BY <2>4, <3>4 DEF startServer, TypeOK
        <4>2. DOMAIN local'[r] \subseteq zk_parts'[r]
          BY <3>2, <3>4, <4>1 DEF gone
        <4> QED
          BY <4>2 DEF Shown
      <3>5. CASE r # q
        <4>1. zk_parts'[r] = zk_parts[r]
          BY <2>4, <3>5 DEF startServer, TypeOK
        <4> QED
          BY <1>9, <3>2, <3>3, <3>5, <4>1
      <3> QED
        BY <3>4, <3>5
    <2> QED
      BY <1>13, <2>1, <2>2, <2>3, <2>4 DEF Fault
  <1>14. CASE UNCHANGED vars
    <2>1. UNCHANGED <<restarting, local, zk_parts, to_check>>
      BY <1>14 DEF vars, keeper, server
    <2>2. ASSUME NEW r \in Replicas
          PROVE  Shown(r)
      BY <1>9, <2>1
    <2> QED
      BY <1>5, <2>2
  <1> QED
    BY <1>5, <1>10, <1>11, <1>12, <1>13, <1>14, AllSteps

-----------------------------------------------------------------------------
(* The number of replicas that hold a part.                                *)
LEMMA HoldersType ==
    ASSUME NEW p, NEW S \in SUBSET Holders(p)
    PROVE  /\ IsFiniteSet(Holders(p)) /\ Cardinality(Holders(p)) \in Nat
           /\ Cardinality(S) \in Nat /\ Cardinality(S) <= Cardinality(Holders(p))
  <1>1. IsFiniteSet(Replicas)
    BY InsertAssumption
  <1>2. Holders(p) \subseteq Replicas
    BY DEF Holders
  <1>3. IsFiniteSet(Holders(p))
    BY <1>1, <1>2, FS_Subset
  <1>4. IsFiniteSet(S) /\ Cardinality(S) <= Cardinality(Holders(p))
    BY <1>3, FS_Subset
  <1> QED
    BY <1>3, <1>4, FS_CardinalityType

LEMMA HoldersGrow ==
    ASSUME NEW p, Holders(p) \subseteq Holders(p)'
    PROVE  Cardinality(Holders(p)) >= QuorumSize => Cardinality(Holders(p)') >= QuorumSize
  <1>1. IsFiniteSet(Replicas) /\ QuorumSize \in Nat
    BY InsertAssumption
  <1>2. Holders(p)' \subseteq Replicas
    BY DEF Holders
  <1>3. IsFiniteSet(Holders(p)') /\ IsFiniteSet(Holders(p))
    BY <1>1, <1>2, FS_Subset
  <1>4. Cardinality(Holders(p)) <= Cardinality(Holders(p)')
    BY <1>3, FS_Subset
  <1>5. Cardinality(Holders(p)) \in Nat /\ Cardinality(Holders(p)') \in Nat
    BY <1>3, FS_CardinalityType
  <1> QED
    BY <1>1, <1>4, <1>5

(* A replica gives up a part of ZooKeeper only when its quorum has failed. *)
LEMMA HoldersStay ==
    ASSUME IInv, [Next]_vars, NEW p, p \notin failed
    PROVE  Holders(p) \subseteq Holders(p)'
  <1> TypeOK /\ Kept
    BY DEF IInv
  <1>1. CASE UNCHANGED zk_parts
    BY <1>1 DEF Holders
  <1>2. ASSUME NEW n \in requests, commitOps(n)
        PROVE  Holders(p) \subseteq Holders(p)'
    <2>1. CASE Answer(n) = "ok"
      BY <1>2, <2>1 DEF commitOps, Holders, TypeOK
    <2>2. CASE Answer(n) # "ok"
      BY <1>1, <1>2, <2>2 DEF commitOps, keeper
    <2> QED
      BY <2>1, <2>2
  <1>3. ASSUME NEW q \in Replicas, removeFailedQuorumParts(q)
        PROVE  Holders(p) \subseteq Holders(p)'
    BY <1>3 DEF removeFailedQuorumParts, Holders, TypeOK
  <1>4. ASSUME NEW q \in Replicas, NEW s, fetchPart(q, s)
        PROVE  Holders(p) \subseteq Holders(p)'
    BY <1>4 DEF fetchPart, Holders, TypeOK
  <1>5. ASSUME NEW q \in Replicas, startServer(q)
        PROVE  Holders(p) \subseteq Holders(p)'
    <2>1. \A r \in Replicas : zk_parts[r] \subseteq DOMAIN local[r]
      BY DEF Kept
    <2>2. \A r \in Replicas : zk_parts[r] \subseteq zk_parts'[r]
      BY <1>5, <2>1 DEF startServer, TypeOK
    <2> QED
      BY <2>2 DEF Holders
  <1>6. ASSUME NEW q \in Replicas, ReplicaStep(q) \/ Fault(q)
        PROVE  Holders(p) \subseteq Holders(p)'
    BY <1>1, <1>3, <1>4, <1>5, <1>6, ReplicaFrame, FaultFrame
  <1>7. ASSUME NEW k \in Inserts, InsertStep(k)
        PROVE  Holders(p) \subseteq Holders(p)'
    BY <1>1, <1>7, InsertFrame
  <1>8. CASE UNCHANGED vars
    BY <1>1, <1>8 DEF vars, keeper
  <1> QED
    BY <1>2, <1>6, <1>7, <1>8, AllSteps

(* Another replica joins: the status goes if that makes enough of them.    *)
LEMMA JoinEffect ==
    ASSUME TypeOK, Quorums, NEW r \in Replicas, NEW p \in InQuorum, UpdateQuorum(r, p)
    PROVE  \/ quorum' = {[part |-> p, replicas |-> {r} \cup q.replicas] : q \in quorum}
           \/ quorum' = {} /\ \E q \in quorum : q.part = p /\ Cardinality(q.replicas \cup {r}) >= QuorumSize
  <1>1. PICK q \in quorum : q.part = p
    BY DEF InQuorum
  <1>2. quorum = {q}
    BY <1>1 DEF Quorums
  <1>3. q \in [part : AnyPart, replicas : SUBSET Replicas]
    BY <1>1 DEF TypeOK
  <1>4. Joined(r, q) = [part |-> p, replicas |-> {r} \cup q.replicas]
    <2>1. ASSUME NEW e, e = [q EXCEPT !.replicas = @ \cup {r}]
          PROVE  e = [part |-> p, replicas |-> {r} \cup q.replicas]
      BY <1>1, <1>3, <2>1
    <2> QED
      BY <2>1 DEF Joined
  <1>5. {IF s.part = p THEN Joined(r, s) ELSE s : s \in quorum} = {Joined(r, q)}
    BY <1>1, <1>2
  <1>6. quorum' = {s \in {Joined(r, q)} : Cardinality(s.replicas) < QuorumSize}
    BY <1>5 DEF UpdateQuorum
  <1>7. Joined(r, q).replicas = q.replicas \cup {r}
    BY <1>4
  <1>8. CASE Cardinality(q.replicas \cup {r}) < QuorumSize
    <2>1. quorum' = {Joined(r, q)}
      BY <1>6, <1>7, <1>8
    <2> QED
      BY <1>2, <1>4, <2>1
  <1>9. CASE ~(Cardinality(q.replicas \cup {r}) < QuorumSize)
    <2>1. quorum' = {}
      BY <1>6, <1>7, <1>9
    <2>2. IsFiniteSet(q.replicas \cup {r})
      <3>1. IsFiniteSet(Replicas) /\ q.replicas \cup {r} \subseteq Replicas
        BY <1>3, InsertAssumption
      <3> QED
        BY <3>1, FS_Subset
    <2>3. Cardinality(q.replicas \cup {r}) \in Nat /\ QuorumSize \in Nat
      BY <2>2, FS_CardinalityType, InsertAssumption
    <2>4. Cardinality(q.replicas \cup {r}) >= QuorumSize
      BY <1>9, <2>3
    <2> QED
      BY <1>1, <2>1, <2>4
  <1> QED
    BY <1>8, <1>9

LEMMA QuorumsStep ==
    ASSUME IInv, [Next]_vars
    PROVE  Quorums'
  <1> TypeOK /\ FreshNumbers /\ Sessions /\ Requests /\ Kept /\ Quorums
    BY DEF IInv
  <1>1. QuorumSize \in Nat
    BY InsertAssumption
  <1>2. ASSUME UNCHANGED <<log, failed, quorum, with_quorum>>
        PROVE  Quorums'
    <2>1. \A q \in quorum : q.part \notin failed
      BY DEF Quorums
    <2>2. \A q \in quorum : q.replicas \subseteq Holders(q.part)'
      BY <2>1, HoldersStay DEF Quorums
    <2>3. ASSUME with_quorum, NEW p \in log \ failed
          PROVE  p \in InQuorum \/ Cardinality(Holders(p)') >= QuorumSize
      <3>1. Holders(p) \subseteq Holders(p)'
        BY <2>3, HoldersStay
      <3>2. Cardinality(Holders(p)) >= QuorumSize => Cardinality(Holders(p)') >= QuorumSize
        BY <3>1, HoldersGrow
      <3> QED
        BY <2>3, <3>2 DEF Quorums
    <2> QED
      BY <1>2, <2>2, <2>3 DEF Quorums, InQuorum
  <1>3. ASSUME NEW n \in requests, commitOps(n), Answer(n) = "ok"
        PROVE  Quorums'
    <2> DEFINE i == n.part.insert
    <2>1. i \in Inserts /\ UNCHANGED <<failed, with_quorum>> /\ n.part \in AnyPart
      BY <1>3, CommitFrame, CommitEffect
    <2>2. R(i) \in Replicas
      BY <2>1, FieldTypes
    <2>3. /\ log' = log \cup {n.part}
          /\ quorum' = IF with_quorum THEN {[part |-> n.part, replicas |-> {R(i)}]} ELSE quorum
      BY <1>3 DEF commitOps
    <2>4. zk_parts' = [zk_parts EXCEPT ![R(i)] = @ \cup {n.part}]
      BY <1>3 DEF commitOps
    <2>5. n.part \notin log /\ n.part \notin failed
      BY DEF Requests, Quorums
    <2>6. {R(i)} \subseteq Holders(n.part)'
      BY <2>2, <2>4 DEF Holders, TypeOK
    <2>7. with_quorum => quorum = {}
      BY <1>3 DEF Answer
    <2>8. CASE with_quorum
      <3>1. quorum' = {[part |-> n.part, replicas |-> {R(i)}]}
        BY <2>3, <2>8
      <3>2. \A q \in quorum' : q.part = n.part /\ q.replicas = {R(i)}
        BY <3>1
      <3>3. n.part \in InQuorum'
        BY <3>1 DEF InQuorum
      <3>4. ASSUME NEW p \in log \ failed
            PROVE  Cardinality(Holders(p)') >= QuorumSize
        <4>1. p \notin InQuorum
          BY <2>7, <2>8 DEF InQuorum
        <4>2. Cardinality(Holders(p)) >= QuorumSize
          BY <2>8, <3>4, <4>1 DEF Quorums
        <4>3. Holders(p) \subseteq Holders(p)'
          BY <3>4, HoldersStay
        <4> QED
          BY <4>2, <4>3, HoldersGrow
      <3> HIDE DEF i
      <3>5. \A p \in log' \ failed' : p \in InQuorum' \/ Cardinality(Holders(p)') >= QuorumSize
        BY <2>1, <2>3, <3>3, <3>4
      <3>6. failed' \subseteq log' /\ with_quorum'
        BY <2>1, <2>3, <2>8 DEF Quorums
      <3>7. \A q \in quorum' : q.part \in log' \ failed' /\ q.replicas \subseteq Holders(q.part)'
        BY <2>1, <2>3, <2>5, <2>6, <3>2
      <3>8. \A q, s \in quorum' : q = s
        BY <3>1
      <3> QED
        BY <3>5, <3>6, <3>7, <3>8 DEF Quorums
    <2>9. CASE ~with_quorum
      BY <2>1, <2>3, <2>9 DEF Quorums
    <2> QED
      BY <2>8, <2>9
  <1>4. ASSUME NEW n \in requests, commitOps(n), Answer(n) # "ok"
        PROVE  UNCHANGED <<log, failed, quorum, with_quorum>>
    BY <1>4 DEF commitOps, keeper
  <1>5. ASSUME NEW r \in Replicas, restarting[r] # "stopped", NEW p \in InQuorum \cap Of(r, {"Active"}), UpdateQuorum(r, p),
               UNCHANGED <<log, failed, zk_parts, with_quorum>>
        PROVE  Quorums'
    <2>1. p \in log \ failed
      BY <1>5 DEF Quorums, InQuorum
    <2>2. r \in Holders(p)
      <3>1. p \in DOMAIN local[r] /\ local[r][p] = "Active"
        BY <1>5 DEF Of
      <3>2. p \in zk_parts[r] \cup to_check[r]
        BY <1>5, <3>1 DEF Kept
      <3>3. p \in to_check[r] => r = R(p.insert)
        BY DEF Kept
      <3>4. p \in zk_parts[R(p.insert)]
        BY <2>1 DEF Kept
      <3> QED
        BY <3>2, <3>3, <3>4 DEF Holders
    <2>3. with_quorum
      BY <1>5 DEF Quorums, InQuorum
    <2>4. PICK q \in quorum : q.part = p
      BY <1>5 DEF InQuorum
    <2>5. quorum = {q} /\ q.replicas \subseteq Holders(p)
      BY <2>4 DEF Quorums
    <2>6. q.replicas \cup {r} \subseteq Holders(p)
      BY <2>2, <2>5
    <2>7. \A s \in log : Holders(s)' = Holders(s)
      BY <1>5 DEF Holders
    <2>8. \A s \in log \ failed : s = p \/ Cardinality(Holders(s)) >= QuorumSize
      BY <2>3, <2>4, <2>5 DEF Quorums, InQuorum
    <2>9. CASE quorum' = {[part |-> p, replicas |-> {r} \cup s.replicas] : s \in quorum}
      <3>1. quorum' = {[part |-> p, replicas |-> {r} \cup q.replicas]}
        BY <2>5, <2>9
      <3>2. p \in InQuorum'
        BY <3>1 DEF InQuorum
      <3>3. \A s \in log' \ failed' : s \in InQuorum' \/ Cardinality(Holders(s)') >= QuorumSize
        BY <1>5, <2>7, <2>8, <3>2
      <3>4. \A s \in quorum' : s.part = p /\ s.replicas \subseteq Holders(p)
        BY <2>6, <3>1
      <3>5. \A s, t \in quorum' : s = t
        BY <3>1
      <3>6. \A s \in quorum' : s.part \in log' \ failed' /\ s.replicas \subseteq Holders(s.part)'
        BY <1>5, <2>1, <2>7, <3>4
      <3>7. failed' \subseteq log' /\ with_quorum'
        BY <1>5, <2>3 DEF Quorums
      <3> QED
        BY <3>3, <3>5, <3>6, <3>7 DEF Quorums
    <2>10. CASE quorum' = {} /\ \E s \in quorum : s.part = p /\ Cardinality(s.replicas \cup {r}) >= QuorumSize
      <3>1. Cardinality(q.replicas \cup {r}) >= QuorumSize
        BY <2>5, <2>10
      <3>2. Cardinality(Holders(p)) >= QuorumSize
        BY <1>1, <2>6, <3>1, HoldersType
      <3>3. \A s \in log' \ failed' : Cardinality(Holders(s)') >= QuorumSize
        BY <1>5, <2>7, <2>8, <3>2
      <3>4. failed' \subseteq log' /\ with_quorum'
        BY <1>5, <2>3 DEF Quorums
      <3> QED
        BY <2>10, <3>3, <3>4 DEF Quorums
    <2> QED
      BY <1>5, <2>9, <2>10, JoinEffect
  <1>6. ASSUME NEW r \in Replicas, NEW p \in log, failQuorum(r, p)
        PROVE  Quorums'
    <2>1. UNCHANGED <<log, zk_parts, with_quorum>> /\ quorum' = {} /\ failed' = failed \cup {p} /\ p \in InQuorum
      BY <1>6 DEF failQuorum
    <2>2. with_quorum
      BY <2>1 DEF Quorums, InQuorum
    <2>3. \A s \in log \ failed : s = p \/ Cardinality(Holders(s)) >= QuorumSize
      BY <2>1, <2>2 DEF Quorums, InQuorum
    <2>4. \A s \in log : Holders(s)' = Holders(s)
      BY <2>1 DEF Holders
    <2>5. \A s \in log' \ failed' : Cardinality(Holders(s)') >= QuorumSize
      BY <2>1, <2>3, <2>4
    <2> QED
      BY <2>1, <2>2, <2>5 DEF Quorums
  <1>7. ASSUME NEW r \in Replicas, updateQuorumIfWeHavePart(r)
        PROVE  Quorums'
    <2>1. restarting[r] # "stopped" /\ UNCHANGED <<log, failed, zk_parts, with_quorum>>
      BY <1>7 DEF updateQuorumIfWeHavePart, Restart
    <2> QED
      BY <1>2, <1>5, <1>7, <2>1 DEF updateQuorumIfWeHavePart
  <1>8. ASSUME NEW r \in Replicas, NEW p \in log, updateQuorum(r, p)
        PROVE  Quorums'
    <2>1. restarting[r] # "stopped" /\ UNCHANGED <<log, failed, zk_parts, with_quorum>>
      BY <1>8 DEF updateQuorum, Readonly
    <2> QED
      BY <1>5, <1>8, <2>1 DEF updateQuorum
  <1>9. ASSUME NEW r \in Replicas, ReplicaStep(r)
        PROVE  Quorums'
    BY <1>2, <1>6, <1>7, <1>8, <1>9, ReplicaFrame
  <1>10. CASE UNCHANGED vars
    BY <1>2, <1>10 DEF vars, keeper
  <1>11. ASSUME NEW k \in Inserts, InsertStep(k)
         PROVE  Quorums'
    BY <1>2, <1>11, InsertFrame
  <1>12. ASSUME NEW r \in Replicas, Fault(r)
         PROVE  Quorums'
    BY <1>2, <1>12, FaultFrame
  <1> QED
    BY <1>2, <1>3, <1>4, <1>9, <1>10, <1>11, <1>12, AllSteps

-----------------------------------------------------------------------------
(* A quorum fails while the replica of the insert is not active, and a     *)
(* replica that becomes active again has another version of host.          *)
LEMMA HostsStep ==
    ASSUME IInv, [Next]_vars
    PROVE  Hosts'
  <1> TypeOK /\ FreshNumbers /\ Kept /\ Quorums /\ Hosts
    BY DEF IInv
  <1>1. \A j \in Inserts : /\ insert'[j].replica = insert[j].replica
                           /\ insert[j].stage # "start" => insert'[j].host = insert[j].host
                           /\ R(j) \in Replicas /\ insert[j].host \in Nat
                           /\ host[R(j)] \in Nat
    BY InsertsStay, FieldTypes DEF InsertsSteady, Steady
  <1>2. \A p \in log : p.insert \in Inserts /\ insert[p.insert].stage # "start"
    BY DEF TypeOK, AnyPart, FreshNumbers
  <1>3. failed \subseteq log
    BY DEF Quorums
  <1>4. \A r \in Replicas : host[r] <= host'[r] /\ host[r] \in Nat /\ host'[r] \in Nat
    <2>1. UNCHANGED host \/ \E r \in Replicas : activateReplica(r)
      BY AllSteps, InsertFrame, CommitFrame, ReplicaFrame, FaultFrame DEF vars, keeper
    <2>2. CASE UNCHANGED host
      BY <2>2 DEF TypeOK
    <2>3. ASSUME NEW q \in Replicas, activateReplica(q), NEW r \in Replicas
          PROVE  host[r] <= host'[r] /\ host[r] \in Nat /\ host'[r] \in Nat
      BY <2>3 DEF activateReplica, TypeOK
    <2> QED
      BY <2>1, <2>2, <2>3
  <1>5. ASSUME NEW j \in Inserts
        PROVE  insert'[j].host <= host'[R(j)]
    <2>1. CASE insert'[j].host = insert[j].host
      BY <1>1, <1>4, <2>1 DEF Hosts
    <2>2. CASE insert'[j].host # insert[j].host
      <3>1. checkQuorumPrecondition(j)
        <4>1. insert[j].stage = "start"
          BY <1>1, <2>2
        <4>2. ASSUME NEW n \in requests, commitOps(n)
              PROVE  FALSE
          BY <2>2, <4>2, CommitEffect
        <4>3. ASSUME NEW r \in Replicas, ReplicaStep(r) \/ Fault(r)
              PROVE  FALSE
          <5>1. CASE loseConnection(r)
            BY <2>2, <4>1, <5>1, LossEffect
          <5>2. CASE crash(r)
            <6>1. insert'[j] = insert[j] \/ insert'[j] = Record(j, "done", insert[j].host, insert[j].session, insert[j].number,
                                            insert[j].answer, insert[j].await, "unknown")
              BY <5>2, CrashEffect
            <6> QED
              BY <2>2, <6>1 DEF Record
          <5> QED
            BY <2>2, <4>3, <5>1, <5>2, ReplicaFrame, FaultFrame
        <4>4. ASSUME NEW k \in Inserts, InsertStep(k)
              PROVE  checkQuorumPrecondition(j)
          <5>1. k = j
            BY <2>2, <4>4, StageSteps
          <5>2. giveUp(j) \/ checkQuorumPrecondition(j)
            BY <4>1, <4>4, <5>1
               DEF InsertStep, allocateBlockNumber, sendCommit, receiveAnswer, resolveDuplicate, lookForPart, recover,
                   lastRetry, waitForQuorum, stillActive, retryQuorum, giveUpQuorum
          <5>3. giveUp(j) => Ends(j, "error")
            BY InsertEffects
          <5>4. ~giveUp(j)
            BY <2>2, <5>3, BecomesAt DEF Ends
          <5> QED
            BY <5>2, <5>4
        <4> QED
          BY <2>2, <4>2, <4>3, <4>4, AllSteps DEF vars
      <3>2. Becomes(j, "lock", host[R(j)], insert[j].session, insert[j].number, insert[j].answer,
                    insert[j].await, insert[j].result)
        BY <3>1, InsertEffects
      <3>3. insert'[j].host = host[R(j)]
        BY <3>2, BecomesAt
      <3> QED
        BY <1>1, <1>4, <3>3
    <2> QED
      BY <2>1, <2>2
  <1>6. ASSUME NEW p \in failed'
        PROVE  is_active'[R(p.insert)] = 0 \/ insert'[p.insert].host < host'[R(p.insert)]
    <2>1. p \in log
      <3>1. ASSUME NEW r \in Replicas, ReplicaStep(r), p \notin failed
            PROVE  \E s \in log : failQuorum(r, s) /\ p = s
        BY <3>1, ReplicaFrame DEF updateQuorumIfWeHavePart, updateQuorum, failQuorum
      <3>2. CASE p \in failed
        BY <1>3, <3>2
      <3>3. CASE p \notin failed
        BY <3>1, <3>3, AllSteps, InsertFrame, CommitFrame, FaultFrame DEF vars, keeper
      <3> QED
        BY <3>2, <3>3
    <2>2. /\ p.insert \in Inserts /\ R(p.insert) \in Replicas
          /\ insert'[p.insert].host = insert[p.insert].host
      BY <1>1, <1>2, <2>1
    <2>3. is_active[R(p.insert)] = 0 \/ insert[p.insert].host < host[R(p.insert)]
      <3>1. CASE p \in failed
        BY <3>1 DEF Hosts
      <3>2. CASE p \notin failed
        <4>1. ASSUME NEW r \in Replicas, ReplicaStep(r)
              PROVE  Having(p) = {}
          BY <3>2, <4>1, ReplicaFrame DEF updateQuorumIfWeHavePart, updateQuorum, failQuorum
        <4>2. Having(p) = {}
          BY <3>2, <4>1, AllSteps, InsertFrame, CommitFrame, FaultFrame DEF vars, keeper
        <4>3. p \in zk_parts[R(p.insert)]
          BY <2>1, <3>2 DEF Kept
        <4> QED
          BY <2>2, <4>2, <4>3 DEF Having
      <3> QED
        BY <3>1, <3>2
    <2>4. CASE UNCHANGED is_active
      BY <1>1, <1>4, <2>2, <2>3, <2>4
    <2>5. ASSUME NEW r \in Replicas, activateReplica(r)
          PROVE  is_active'[R(p.insert)] = 0 \/ insert'[p.insert].host < host'[R(p.insert)]
      <3>1. CASE R(p.insert) = r
        <4>1. host'[r] = host[r] + 1
          BY <2>5 DEF activateReplica, TypeOK
        <4>2. insert[p.insert].host <= host[r] /\ insert[p.insert].host \in Nat /\ host[r] \in Nat
          BY <1>1, <2>2, <3>1 DEF Hosts
        <4> QED
          BY <2>2, <3>1, <4>1, <4>2
      <3>2. CASE R(p.insert) # r
        <4>1. is_active'[R(p.insert)] = is_active[R(p.insert)] /\ host'[R(p.insert)] = host[R(p.insert)]
          BY <2>2, <2>5, <3>2 DEF activateReplica, TypeOK
        <4> QED
          BY <2>2, <2>3, <4>1
      <3> QED
        BY <3>1, <3>2
    <2>6. ASSUME NEW r \in Replicas, NEW s, expireSession(r, s)
          PROVE  is_active'[R(p.insert)] = 0 \/ insert'[p.insert].host < host'[R(p.insert)]
      <3>1. is_active'[R(p.insert)] = 0 \/ is_active'[R(p.insert)] = is_active[R(p.insert)]
        BY <2>2, <2>6 DEF expireSession, TypeOK
      <3>2. UNCHANGED host
        BY <2>6 DEF expireSession
      <3> QED
        BY <2>2, <2>3, <3>1, <3>2
    <2>7. \/ UNCHANGED is_active
          \/ \E r \in Replicas : activateReplica(r)
          \/ \E r \in Replicas : \E s : expireSession(r, s)
      BY AllSteps, InsertFrame, CommitFrame, ReplicaFrame, FaultFrame DEF vars, keeper
    <2> QED
      BY <2>4, <2>5, <2>6, <2>7
  <1>7. \A p \in failed' : p.insert \in Inserts
    BY TypeStep DEF TypeOK, AnyPart
  <1> QED
    BY <1>1, <1>5, <1>6, <1>7 DEF Hosts, R

-----------------------------------------------------------------------------
(* How an insert comes to a result and keeps it.                           *)
LEMMA OkSteps ==
    ASSUME TypeOK, NEW i \in Inserts, InsertStep(i), insert'[i].result = "ok"
    PROVE  \/ /\ insert'[i].number = insert[i].number
              /\ insert'[i].await = {Part(i)}
              /\ insert'[i].stage = IF with_quorum THEN "quorum" ELSE "done"
              /\ \/ insert[i].stage = "sent" /\ insert[i].answer = "ok"
                 \/ insert[i].stage = "recover" /\ insert[i].answer = "exists" /\ Part(i) \notin failed
           \/ /\ insert[i].result = "ok"
              /\ insert[i].stage \notin {"quorum", "active", "done"}
           \/ /\ insert[i].result = "ok"
              /\ insert'[i].number = insert[i].number
              /\ insert'[i].await = insert[i].await
              /\ \/ waitForQuorum(i) /\ insert'[i].stage = "active"
                 \/ insert'[i].stage = "quorum"
                 \/ stillActive(i) /\ insert'[i].stage = "done" /\ host[R(i)] = insert[i].host /\ is_active[R(i)] # 0
  <1>1. CASE receiveAnswer(i)
    <2>1. insert[i].stage = "sent"
      BY <1>1 DEF receiveAnswer
    <2>2. \/ /\ insert[i].answer = "ok"
             /\ Awaits(i, IF with_quorum THEN "quorum" ELSE "done", {Part(i)}, "ok")
          \/ Goes(i, "resolve")
          \/ Ends(i, "error")
      BY <1>1, InsertEffects
    <2>3. ~Ends(i, "error")
      BY BecomesAt DEF Ends
    <2>4. Goes(i, "resolve") => insert[i].result = "ok"
      BY BecomesAt DEF Goes
    <2> QED
      BY <2>1, <2>2, <2>3, <2>4, BecomesAt DEF Awaits
  <1>2. CASE recover(i)
    <2>1. insert[i].stage = "recover"
      BY <1>2 DEF recover
    <2>2. \/ Ends(i, "error")
          \/ /\ Part(i) \notin failed /\ insert[i].answer = "exists"
             /\ Awaits(i, IF with_quorum THEN "quorum" ELSE "done", {Part(i)}, "ok")
          \/ Goes(i, "lock")
      BY <1>2, InsertEffects
    <2>3. ~Ends(i, "error")
      BY BecomesAt DEF Ends
    <2>4. Goes(i, "lock") => insert[i].result = "ok"
      BY BecomesAt DEF Goes
    <2> QED
      BY <2>1, <2>2, <2>3, <2>4, BecomesAt DEF Awaits
  <1>3. CASE waitForQuorum(i)
    <2>1. Goes(i, "active")
      BY <1>3, InsertEffects
    <2> QED
      BY <1>3, <2>1, BecomesAt DEF Goes
  <1>4. CASE retryQuorum(i)
    <2>1. Goes(i, "quorum")
      BY <1>4, InsertEffects
    <2> QED
      BY <2>1, BecomesAt DEF Goes
  <1>5. CASE stillActive(i)
    <2>1. Ends(i, IF is_active[R(i)] # 0 /\ host[R(i)] = insert[i].host THEN insert[i].result ELSE "unknown")
      BY <1>5, InsertEffects
    <2>2. /\ insert'[i].result = IF is_active[R(i)] # 0 /\ host[R(i)] = insert[i].host THEN insert[i].result ELSE "unknown"
          /\ insert'[i].stage = "done" /\ insert'[i].number = insert[i].number /\ insert'[i].await = insert[i].await
      BY <2>1, BecomesAt DEF Ends
    <2> QED
      BY <1>5, <2>2
  <1>6. CASE lastRetry(i) \/ giveUp(i) \/ giveUpQuorum(i)
    <2>1. Ends(i, "unknown") \/ Ends(i, "error")
      BY <1>6, InsertEffects
    <2> QED
      BY <2>1, BecomesAt DEF Ends
  <1>7. CASE resolveDuplicate(i)
    <2>1. \E st : Awaits(i, st, blocks[insert[i].content], "deduplicated")
      BY <1>7, InsertEffects
    <2> QED
      BY <2>1, BecomesAt DEF Awaits
  <1>8. CASE checkQuorumPrecondition(i) \/ lookForPart(i)
    <2>1. insert[i].stage \in {"start", "verify"}
      BY <1>8 DEF checkQuorumPrecondition, lookForPart
    <2>2. \E st, hst, a : Becomes(i, st, hst, insert[i].session, insert[i].number, a, insert[i].await, insert[i].result)
      BY <1>8, InsertEffects
    <2> QED
      BY <2>1, <2>2, BecomesAt
  <1>9. CASE allocateBlockNumber(i) \/ sendCommit(i)
    <2>1. insert[i].stage \in {"lock", "locked"}
      BY <1>9 DEF allocateBlockNumber, sendCommit
    <2>2. \/ Goes(i, "resolve") \/ Goes(i, "sent") \/ Goes(i, "verify")
          \/ Becomes(i, "locked", insert[i].host, session[R(i)], next_number, "none",
                     insert[i].await, insert[i].result)
      BY <1>9, InsertEffects
    <2>3. insert[i].result = "ok"
      BY <2>2, BecomesAt DEF Goes
    <2> QED
      BY <2>1, <2>3
  <1> QED
    BY <1>1, <1>2, <1>3, <1>4, <1>5, <1>6, <1>7, <1>8, <1>9 DEF InsertStep

LEMMA SucceedingStep ==
    ASSUME IInv, [Next]_vars
    PROVE  Succeeding'
  <1> TypeOK /\ FreshNumbers /\ Requests /\ Answers /\ Kept /\ Quorums /\ Hosts /\ Succeeding
    BY DEF IInv
  <1>1. \A j \in Inserts : R(j) \in Replicas /\ Part(j).insert = j /\ insert[j].host \in Nat /\ host[R(j)] \in Nat
    BY FieldTypes DEF Part
  <1>2. \A r \in Replicas : zk_parts[r] \subseteq log
    BY DEF Kept
  <1>3. log \subseteq log'
    <2>1. ASSUME NEW n \in requests, commitOps(n)
          PROVE  log \subseteq log'
      BY <2>1 DEF commitOps, keeper
    <2> QED
      BY <2>1, AllSteps, InsertFrame, ReplicaFrame, FaultFrame DEF vars, keeper
  <1>4. UNCHANGED with_quorum
    BY AllSteps, InsertFrame, CommitFrame, ReplicaFrame, FaultFrame DEF vars
  (* A part that is in the log already gets no new quorum, and a quorum    *)
  (* that is gone does not fail.                                           *)
  <1>5. ASSUME NEW p \in log, p \notin InQuorum
        PROVE  p \notin InQuorum' /\ (p \notin failed => p \notin failed')
    <2>1. CASE UNCHANGED <<quorum, failed>>
      BY <1>5, <2>1 DEF InQuorum
    <2>2. ASSUME NEW n \in requests, commitOps(n)
          PROVE  p \notin InQuorum' /\ (p \notin failed => p \notin failed')
      <3>1. n.part # p /\ UNCHANGED failed
        BY <1>5, <2>2, CommitFrame DEF Requests
      <3>2. \/ UNCHANGED quorum
            \/ quorum' = {[part |-> n.part, replicas |-> {R(n.part.insert)}]}
        BY <2>2 DEF commitOps, keeper
      <3> QED
        BY <1>5, <3>1, <3>2 DEF InQuorum
    <2>3. ASSUME NEW r \in Replicas, NEW s \in InQuorum, UpdateQuorum(r, s), UNCHANGED failed
          PROVE  p \notin InQuorum' /\ (p \notin failed => p \notin failed')
      <3>1. \/ quorum' = {[part |-> s, replicas |-> {r} \cup q.replicas] : q \in quorum}
            \/ quorum' = {}
        BY <2>3, JoinEffect
      <3>2. p # s
        BY <1>5
      <3> QED
        BY <2>3, <3>1, <3>2 DEF InQuorum
    <2>4. ASSUME NEW r \in Replicas, NEW s \in log, failQuorum(r, s)
          PROVE  p \notin InQuorum' /\ (p \notin failed => p \notin failed')
      BY <1>5, <2>4 DEF failQuorum, InQuorum
    <2>5. ASSUME NEW r \in Replicas, ReplicaStep(r)
          PROVE  \/ UNCHANGED <<quorum, failed>>
                 \/ (\E s \in InQuorum : UpdateQuorum(r, s)) /\ UNCHANGED failed
                 \/ \E s \in log : failQuorum(r, s)
      BY <2>5, ReplicaFrame DEF updateQuorumIfWeHavePart, updateQuorum
    <2> QED
      BY <2>1, <2>2, <2>3, <2>4, <2>5, AllSteps, InsertFrame, FaultFrame DEF vars, keeper
  <1> DEFINE Fine(j) == insert'[j].result = "ok" =>
                 /\ insert'[j].stage \in {"quorum", "active", "done"}
                 /\ Part(j)' \in log'
                 /\ insert'[j].stage # "done" => insert'[j].await = {Part(j)'}
                 /\ insert'[j].stage = "active" => Part(j)' \notin InQuorum'
                 /\ insert'[j].stage = "done" /\ with_quorum => Part(j)' \notin InQuorum' \cup failed'
  <1>6. ASSUME NEW j \in Inserts, insert'[j].stage = insert[j].stage, insert'[j].number = insert[j].number,
               insert'[j].await = insert[j].await, insert'[j].result = insert[j].result
        PROVE  Fine(j)
    BY <1>3, <1>5, <1>6 DEF Succeeding, Part
  <1>7. ASSUME NEW k \in Inserts, InsertStep(k), NEW j \in Inserts
        PROVE  Fine(j)
    <2>1. UNCHANGED <<log, quorum, failed>>
      BY <1>7, InsertFrame
    <2>2. CASE j # k
      <3>1. insert'[j] = insert[j]
        BY <1>7, <2>2, StageSteps
      <3> QED
        BY <1>6, <3>1
    <2>3. CASE j = k /\ insert'[k].result = "ok"
      <3>1. CASE /\ insert'[k].number = insert[k].number
                 /\ insert'[k].await = {Part(k)}
                 /\ insert'[k].stage = IF with_quorum THEN "quorum" ELSE "done"
                 /\ \/ insert[k].stage = "sent" /\ insert[k].answer = "ok"
                    \/ insert[k].stage = "recover" /\ insert[k].answer = "exists" /\ Part(k) \notin failed
        <4>1. Part(k) \in zk_parts[R(k)]
          BY <3>1 DEF Answers
        <4>2. Part(k)' = Part(k) /\ Part(k) \in log
          BY <1>1, <1>2, <3>1, <4>1 DEF Part
        <4> QED
          BY <2>1, <2>3, <3>1, <4>2
      <3>2. CASE insert[k].result = "ok" /\ insert[k].stage \notin {"quorum", "active", "done"}
        BY <3>2 DEF Succeeding
      <3>3. CASE /\ insert[k].result = "ok"
                 /\ insert'[k].number = insert[k].number
                 /\ insert'[k].await = insert[k].await
                 /\ \/ waitForQuorum(k) /\ insert'[k].stage = "active"
                    \/ insert'[k].stage = "quorum"
                    \/ stillActive(k) /\ insert'[k].stage = "done" /\ host[R(k)] = insert[k].host /\ is_active[R(k)] # 0
        <4>1. insert[k].stage # "done"
          BY <1>7, StageSteps
        <4>2. Part(k)' = Part(k) /\ Part(k) \in log /\ insert[k].await = {Part(k)}
          BY <3>3, <4>1 DEF Part, Succeeding
        <4>3. InQuorum' = InQuorum
          BY <2>1 DEF InQuorum
        <4>4. waitForQuorum(k) => Part(k) \notin InQuorum
          BY <4>2 DEF waitForQuorum
        <4>5. stillActive(k) => Part(k) \notin InQuorum
          BY <3>3 DEF stillActive, Succeeding
        <4>6. host[R(k)] = insert[k].host /\ is_active[R(k)] # 0 => Part(k) \notin failed
          BY <1>1 DEF Hosts
        <4> QED
          BY <2>1, <2>3, <3>3, <4>2, <4>3, <4>4, <4>5, <4>6
      <3> QED
        BY <1>7, <2>3, <3>1, <3>2, <3>3, OkSteps
    <2> QED
      BY <2>2, <2>3
  <1>8. ASSUME NEW n \in requests, commitOps(n), NEW j \in Inserts
        PROVE  Fine(j)
    <2>1. /\ insert'[j].stage = insert[j].stage /\ insert'[j].number = insert[j].number
          /\ insert'[j].await = insert[j].await /\ insert'[j].result = insert[j].result
      BY <1>8, CommitEffect
    <2> QED
      BY <1>6, <2>1
  <1>9. CASE UNCHANGED insert
    <2>1. ASSUME NEW j \in Inserts
          PROVE  Fine(j)
      BY <1>6, <1>9
    <2> QED
      BY <1>1, <1>4, <2>1 DEF Succeeding, R
  <1>10. ASSUME NEW r \in Replicas, loseConnection(r), NEW j \in Inserts
         PROVE  Fine(j)
    <2>1. CASE insert'[j] = insert[j]
      BY <1>6, <2>1
    <2>2. CASE insert[j].stage = "sent" /\ insert'[j].result = insert[j].result
      BY <2>2 DEF Succeeding
    <2> QED
      BY <1>10, <2>1, <2>2, LossEffect
  <1>11. ASSUME NEW r \in Replicas, crash(r), NEW j \in Inserts
         PROVE  Fine(j)
    <2>1. CASE insert'[j] = insert[j]
      BY <1>6, <2>1
    <2>2. CASE insert'[j].result = "unknown"
      BY <2>2
    <2> QED
      BY <1>11, <2>1, <2>2, CrashEffect
  <1>12. ASSUME \A j \in Inserts : Fine(j)
         PROVE  Succeeding'
    BY <1>4, <1>12 DEF Succeeding
  <1> HIDE DEF Fine
  <1> QED
    BY <1>7, <1>8, <1>9, <1>10, <1>11, <1>12, AllSteps, ReplicaFrame, FaultFrame DEF vars

-----------------------------------------------------------------------------
(* An insert that has been told of a block with its block id.              *)
Told(i) ==
    \/ insert[i].stage = "resolve" \/ insert[i].result = "deduplicated"
    \/ insert[i].stage = "sent" /\ insert[i].answer = "duplicate"

LEMMA ToldSteps ==
    ASSUME TypeOK, Answers, NEW i \in Inserts, InsertStep(i), Told(i)'
    PROVE  Told(i) \/ blocks[insert[i].content] # {}
  <1>1. CASE receiveAnswer(i)
    <2>1. \/ insert[i].answer = "ok" /\ \E st \in {"quorum", "done"} : Awaits(i, st, {Part(i)}, "ok")
          \/ insert[i].stage = "sent" /\ insert[i].answer = "duplicate"
          \/ Ends(i, "error")
      BY <1>1, InsertEffects DEF receiveAnswer
    <2>2. ASSUME NEW st \in {"quorum", "done"}, Awaits(i, st, {Part(i)}, "ok")
          PROVE  FALSE
      BY <2>2, BecomesAt DEF Awaits, Told
    <2>3. ~Ends(i, "error")
      BY BecomesAt DEF Ends, Told
    <2> QED
      BY <2>1, <2>2, <2>3 DEF Told
  <1>2. CASE recover(i)
    <2>1. \/ Ends(i, "error") \/ Goes(i, "lock")
          \/ \E st \in {"quorum", "done"} : Awaits(i, st, {Part(i)}, "ok")
      BY <1>2, InsertEffects
    <2>2. ASSUME NEW st \in {"quorum", "done"}, Awaits(i, st, {Part(i)}, "ok")
          PROVE  FALSE
      BY <2>2, BecomesAt DEF Awaits, Told
    <2>3. ~Ends(i, "error")
      BY BecomesAt DEF Ends, Told
    <2>4. Goes(i, "lock") => insert[i].result = "deduplicated"
      BY BecomesAt DEF Goes, Told
    <2> QED
      BY <2>1, <2>2, <2>3, <2>4 DEF Told
  <1>3. CASE waitForQuorum(i) \/ retryQuorum(i)
    <2>1. Goes(i, "active") \/ Goes(i, "quorum")
      BY <1>3, InsertEffects
    <2>2. insert[i].result = "deduplicated"
      BY <2>1, BecomesAt DEF Goes, Told
    <2> QED
      BY <2>2 DEF Told
  <1>4. CASE stillActive(i)
    <2>1. Ends(i, IF is_active[R(i)] # 0 /\ host[R(i)] = insert[i].host THEN insert[i].result ELSE "unknown")
      BY <1>4, InsertEffects
    <2>2. insert[i].result = "deduplicated"
      BY <2>1, BecomesAt DEF Ends, Told
    <2> QED
      BY <2>2 DEF Told
  <1>5. CASE lastRetry(i) \/ giveUp(i) \/ giveUpQuorum(i)
    <2>1. Ends(i, "unknown") \/ Ends(i, "error")
      BY <1>5, InsertEffects
    <2> QED
      BY <2>1, BecomesAt DEF Ends, Told
  <1>6. CASE resolveDuplicate(i)
    BY <1>6 DEF resolveDuplicate, Told
  <1>7. CASE checkQuorumPrecondition(i) \/ lookForPart(i)
    <2>1. \E st \in {"lock", "recover"} : \E hst, a :
             Becomes(i, st, hst, insert[i].session, insert[i].number, a, insert[i].await, insert[i].result)
      BY <1>7, InsertEffects
    <2>2. insert[i].result = "deduplicated"
      BY <2>1, BecomesAt DEF Told
    <2> QED
      BY <2>2 DEF Told
  <1>8. CASE allocateBlockNumber(i)
    <2>1. \/ blocks[insert[i].content] # {}
          \/ Becomes(i, "locked", insert[i].host, session[R(i)], next_number, "none",
                     insert[i].await, insert[i].result)
      BY <1>8, InsertEffects
    <2>2. CASE Becomes(i, "locked", insert[i].host, session[R(i)], next_number, "none",
                       insert[i].await, insert[i].result)
      <3>1. insert[i].result = "deduplicated"
        BY <2>2, BecomesAt DEF Told
      <3> QED
        BY <3>1 DEF Told
    <2> QED
      BY <2>1, <2>2
  <1>9. CASE sendCommit(i)
    <2>1. Goes(i, "sent") \/ Goes(i, "verify")
      BY <1>9, InsertEffects
    <2>2. insert[i].answer = "none"
      BY <1>9 DEF sendCommit, Answers
    <2>3. insert[i].result = "deduplicated"
      BY <2>1, <2>2, BecomesAt DEF Goes, Told
    <2> QED
      BY <2>3 DEF Told
  <1> QED
    BY <1>1, <1>2, <1>3, <1>4, <1>5, <1>6, <1>7, <1>8, <1>9 DEF InsertStep

LEMMA BlockIdsStep ==
    ASSUME IInv, [Next]_vars
    PROVE  BlockNodes'
  <1> TypeOK /\ FreshNumbers /\ Requests /\ Answers /\ Quorums /\ BlockNodes
    BY DEF IInv
  <1>1. \A j \in Inserts : insert'[j].content = insert[j].content /\ insert[j].content \in Contents
    BY InsertsStay, FieldTypes DEF InsertsSteady, Steady
  <1>2. \A p \in log : p.insert \in Inserts
    BY DEF TypeOK, AnyPart
  <1>3. UNCHANGED with_quorum
    BY AllSteps, InsertFrame, CommitFrame, ReplicaFrame, FaultFrame DEF vars
  <1> DEFINE Ids ==
        /\ \A c \in Contents : \A p \in blocks'[c] : p \in log' /\ Content(p) = c
        /\ ~with_quorum => \A p \in log' : p.insert \in Inserts /\ blocks'[Content(p)] = {p}
        /\ \A c \in Contents : ~with_quorum /\ blocks[c] # {} => blocks'[c] # {}
  <1>13. /\ \A c \in Contents : \A p \in blocks[c] : p \in log /\ Content(p) = c
         /\ ~with_quorum => \A p \in log : blocks[Content(p)] = {p}
    BY DEF BlockNodes
  <1>4. ASSUME UNCHANGED <<log, blocks>>
        PROVE  Ids
    <2>1. log' = log /\ blocks' = blocks
      BY <1>4
    <2> QED
      BY <1>2, <1>13, <2>1
  <1>5. ASSUME NEW n \in requests, commitOps(n)
        PROVE  Ids
    <2> DEFINE i == n.part.insert
    <2>1. i \in Inserts
      BY <1>5, CommitEffect
    <2>2. CASE Answer(n) = "ok"
      <3>1. log' = log \cup {n.part}
        BY <1>5, <2>2 DEF commitOps
      <3>2. /\ blocks'[insert[i].content] = {n.part}
            /\ \A c \in Contents : c # insert[i].content => blocks'[c] = blocks[c]
        BY <1>1, <1>5, <2>1, <2>2 DEF commitOps, TypeOK
      <3>3. blocks[insert[i].content] = {}
        BY <2>2 DEF Answer
      <3>4. Content(n.part) = insert[i].content
        BY DEF Content
      <3>5. ~with_quorum => \A p \in log : Content(p) # insert[i].content
        BY <3>3 DEF BlockNodes
      <3>6. \A p \in log : Content(p) \in Contents
        BY <1>1, <1>2 DEF Content
      <3>7. \A c \in Contents : \A p \in blocks'[c] : p \in log' /\ Content(p) = c
        BY <3>1, <3>2, <3>4 DEF BlockNodes
      <3>8. ~with_quorum => \A p \in log' : p.insert \in Inserts /\ blocks'[Content(p)] = {p}
        BY <1>2, <2>1, <3>1, <3>2, <3>4, <3>5, <3>6 DEF BlockNodes
      <3> QED
        BY <3>2, <3>7, <3>8
    <2>3. CASE Answer(n) # "ok"
      <3>1. UNCHANGED <<log, blocks>>
        BY <1>5, <2>3 DEF commitOps, keeper
      <3> HIDE DEF Ids
      <3> QED
        BY <1>4, <3>1
    <2> QED
      BY <2>2, <2>3
  <1>6. ASSUME NEW r \in Replicas, NEW s \in log, failQuorum(r, s)
        PROVE  Ids
    <2>1. /\ \A c \in Contents : blocks'[c] = blocks[c] \ {s}
          /\ UNCHANGED log
      BY <1>6 DEF failQuorum
    <2>2. with_quorum
      BY <1>6 DEF failQuorum, InQuorum, Quorums
    <2> QED
      BY <2>1, <2>2 DEF BlockNodes
  <1>7. ASSUME NEW r \in Replicas, ReplicaStep(r)
        PROVE  Ids
    <2>1. UNCHANGED log
      BY <1>7, ReplicaFrame
    <2>2. UNCHANGED blocks \/ \E s \in log : failQuorum(r, s)
      BY <1>7, ReplicaFrame DEF updateQuorumIfWeHavePart, updateQuorum
    <2> HIDE DEF Ids
    <2> QED
      BY <1>4, <1>6, <2>1, <2>2
  <1>8. Ids
    <2>1. ASSUME NEW k \in Inserts, InsertStep(k)
          PROVE  UNCHANGED <<log, blocks>>
      BY <2>1, InsertFrame
    <2>2. ASSUME NEW r \in Replicas, Fault(r)
          PROVE  UNCHANGED <<log, blocks>>
      BY <2>2, FaultFrame
    <2>3. UNCHANGED vars => UNCHANGED <<log, blocks>>
      BY DEF vars, keeper
    <2> HIDE DEF Ids
    <2> QED
      BY <1>4, <1>5, <1>7, <2>1, <2>2, <2>3, AllSteps
  (* Who is told of a block.                                               *)
  <1>9. ASSUME NEW j \in Inserts, ~with_quorum, Told(j)'
        PROVE  blocks'[insert[j].content] # {}
    <2>1. Told(j) => blocks[insert[j].content] # {}
      BY <1>9 DEF BlockNodes, Told
    <2>2. Told(j) \/ blocks[insert[j].content] # {}
      <3>1. CASE insert'[j] = insert[j]
        BY <1>9, <3>1 DEF Told
      <3>2. ASSUME NEW k \in Inserts, InsertStep(k)
            PROVE  Told(j) \/ blocks[insert[j].content] # {}
        <4>1. CASE j = k
          BY <1>9, <3>2, <4>1, ToldSteps
        <4>2. CASE j # k
          BY <3>1, <3>2, <4>2, StageSteps
        <4> QED
          BY <4>1, <4>2
      <3>3. ASSUME NEW n \in requests, commitOps(n)
            PROVE  Told(j) \/ blocks[insert[j].content] # {}
        <4>1. /\ insert'[j].stage = insert[j].stage /\ insert'[j].result = insert[j].result
              /\ insert'[j].answer = IF insert[j].stage = "sent" /\ Part(j) = n.part
                                     THEN Answer(n) ELSE insert[j].answer
          BY <3>3, CommitEffect
        <4>2. CASE insert[j].stage = "sent" /\ Part(j) = n.part /\ Answer(n) = "duplicate"
          <5>1. n.part.insert = j
            BY <4>2 DEF Part
          <5>2. blocks[insert[n.part.insert].content] # {}
            BY <4>2 DEF Answer
          <5> QED
            BY <5>1, <5>2
        <4> QED
          BY <1>9, <4>1, <4>2 DEF Told
      <3>4. ASSUME NEW r \in Replicas, loseConnection(r)
            PROVE  Told(j) \/ blocks[insert[j].content] # {}
        <4>1. \/ insert'[j] = insert[j]
              \/ insert'[j].stage = "verify" /\ insert'[j].result = insert[j].result
          BY <3>4, LossEffect
        <4> QED
          BY <1>9, <3>1, <4>1 DEF Told
      <3>5. ASSUME NEW r \in Replicas, crash(r)
            PROVE  Told(j) \/ blocks[insert[j].content] # {}
        <4>1. \/ insert'[j] = insert[j]
              \/ insert'[j].stage = "done" /\ insert'[j].result = "unknown"
          BY <3>5, CrashEffect
        <4> QED
          BY <1>9, <3>1, <4>1 DEF Told
      <3> QED
        BY <3>1, <3>2, <3>3, <3>4, <3>5, AllSteps, ReplicaFrame, FaultFrame DEF vars
    <2>3. blocks[insert[j].content] # {}
      BY <2>1, <2>2
    <2> QED
      BY <1>1, <1>8, <1>9, <2>3
  <1>10. \A p : Content(p) = insert[p.insert].content /\ Content(p)' = insert'[p.insert].content
    BY DEF Content
  <1>11. \A c \in Contents : \A p \in blocks'[c] : p \in log' /\ Content(p)' = c
    <2>1. \A p \in log' : p.insert \in Inserts
      BY TypeStep DEF TypeOK, AnyPart
    <2> QED
      BY <1>1, <1>8, <1>10, <2>1
  <1>12. ~with_quorum => \A p \in log' : blocks'[Content(p)'] = {p}
    BY <1>1, <1>8, <1>10
  <1> HIDE DEF Ids
  <1> QED
    BY <1>1, <1>3, <1>9, <1>11, <1>12 DEF BlockNodes, Told

-----------------------------------------------------------------------------
(* The invariant is inductive: what every reachable state of the replicas  *)
(* and of ZooKeeper satisfies.                                             *)
LEMMA StepHolds == IInv /\ [Next]_vars => IInv'
  <1> SUFFICES ASSUME IInv, [Next]_vars PROVE IInv'
    OBVIOUS
  <1>1. TypeOK /\ FreshNumbers /\ Sessions
    BY DEF IInv
  <1> QED
    BY <1>1, TypeStep, FreshNumbersStep, SessionsStep, RequestsStep, AnswersStep, KeptStep, QuorumsStep, HostsStep,
       SucceedingStep, BlockIdsStep DEF IInv

(* All of the above stays true, whatever the client, the other servers and *)
(* ZooKeeper do: ReplicatedMergeTreeSinkImpl::commitPart with its retries, *)
(* the part check and the restarting thread.                               *)
THEOREM InvariantHolds == Spec => []IInv
  BY InitHolds, StepHolds, PTL DEF Spec

(* The nodes of ZooKeeper, the working sets and the state of every insert  *)
(* keep their types.                                                       *)
THEOREM TypeCorrect == Spec => []TypeOK
  <1>1. IInv => TypeOK
    BY DEF IInv
  <1> QED
    BY <1>1, InvariantHolds, PTL

(* The two places agree: a part of a replica in ZooKeeper is in its        *)
(* working set, and an Active part that ZooKeeper does not know of is      *)
(* queued for the part check.  commitPart rolls its part back or queues it *)
(* whenever it cannot tell whether the request was executed.               *)
THEOREM LocalMatches == Spec => []LocalMatchesKeeper
  <1>1. ASSUME IInv
        PROVE  LocalMatchesKeeper
    <2>1. Kept
      BY <1>1 DEF IInv
    <2>2. \A r \in Replicas : \A p \in zk_parts[r] : p \in DOMAIN local[r]
      BY <2>1 DEF Kept
    <2>3. ASSUME NEW r \in Replicas, restarting[r] # "stopped", NEW p \in Of(r, {"Active"})
          PROVE  p \in zk_parts[r] \cup to_check[r]
      BY <2>1, <2>3 DEF Kept, Of
    <2> QED
      BY <2>2, <2>3 DEF LocalMatchesKeeper
  <1> QED
    BY <1>1, InvariantHolds, PTL

(* Rows inserted again with the same block id are visible once, however    *)
(* often the sink or the client tries again, on any replica.               *)
THEOREM NothingStoredTwice == Spec => []StoredOnce
  <1>1. ASSUME IInv
        PROVE  StoredOnce
    <2>1. Kept /\ BlockNodes
      BY <1>1 DEF IInv
    <2>2. ASSUME NEW r \in Replicas, ~with_quorum, restarting[r] # "stopped", to_check[r] = {},
                 NEW p \in Of(r, {"Active"}), NEW q \in Of(r, {"Active"}), Content(p) = Content(q)
          PROVE  p = q
      <3>1. p \in log /\ q \in log
        BY <2>1, <2>2 DEF Kept, Of
      <3>2. blocks[Content(p)] = {p} /\ blocks[Content(q)] = {q}
        BY <2>1, <2>2, <3>1 DEF BlockNodes
      <3> QED
        BY <2>2, <3>2
    <2> QED
      BY <2>2 DEF StoredOnce
  <1> QED
    BY <1>1, InvariantHolds, PTL

(* An insert without a quorum that is answered as done or as a duplicate   *)
(* has its rows in a part that a replica holds and ZooKeeper knows of.     *)
THEOREM AcknowledgedInsertsAreStored == Spec => []AcknowledgedIsStored
  <1>1. ASSUME IInv
        PROVE  AcknowledgedIsStored
    <2> TypeOK /\ Kept /\ Quorums /\ Succeeding /\ BlockNodes
      BY <1>1 DEF IInv
    <2>1. ASSUME NEW p \in log, ~with_quorum
          PROVE  \E r \in Replicas : p \in zk_parts[r] \cap DOMAIN local[r]
      <3>1. p \notin failed /\ p.insert \in Inserts
        BY <2>1 DEF Quorums, TypeOK, AnyPart
      <3>2. R(p.insert) \in Replicas /\ p \in zk_parts[R(p.insert)]
        BY <2>1, <3>1, FieldTypes DEF Kept
      <3> QED
        BY <3>2 DEF Kept
    <2>2. ASSUME NEW i \in Inserts, ~with_quorum, insert[i].result \in {"ok", "deduplicated"}
          PROVE  \E p \in log : Content(p) = insert[i].content
      <3>1. CASE insert[i].result = "ok"
        <4>1. Part(i) \in log /\ Content(Part(i)) = insert[i].content
          BY <3>1 DEF Succeeding, Content, Part
        <4> QED
          BY <4>1
      <3>2. CASE insert[i].result = "deduplicated"
        <4>1. blocks[insert[i].content] # {} /\ insert[i].content \in Contents
          BY <2>2, <3>2, FieldTypes DEF BlockNodes
        <4> QED
          BY <4>1 DEF BlockNodes
      <3> QED
        BY <2>2, <3>1, <3>2
    <2> QED
      BY <2>1, <2>2 DEF AcknowledgedIsStored
  <1> QED
    BY <1>1, InvariantHolds, PTL

(* An insert with a quorum that is answered as done, by waitForQuorum and  *)
(* the check that its replica stayed active, is on that many replicas.     *)
THEOREM AcknowledgedQuorumReached == Spec => []QuorumReached
  <1>1. ASSUME IInv
        PROVE  QuorumReached
    <2>1. Quorums /\ Succeeding
      BY <1>1 DEF IInv
    <2>2. ASSUME NEW i \in Inserts, with_quorum, insert[i].stage = "done", insert[i].result = "ok"
          PROVE  Cardinality(Holders(Part(i))) >= QuorumSize
      <3>1. Part(i) \in log /\ Part(i) \notin InQuorum \cup failed
        BY <2>1, <2>2 DEF Succeeding
      <3> QED
        BY <2>1, <2>2, <3>1 DEF Quorums
    <2> QED
      BY <2>2 DEF QuorumReached, Holders
  <1> QED
    BY <1>1, InvariantHolds, PTL
=============================================================================
