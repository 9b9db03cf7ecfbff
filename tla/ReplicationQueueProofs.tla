----------------------- MODULE ReplicationQueueProofs -----------------------
(***************************************************************************)
(* The ALTERs of a replica are executed in their order (AltersInOrder),    *)
(* for any number of entries, mutations, threads, failed attempts and      *)
(* restarts, when no crash comes between the commit of a part and the end  *)
(* of its entry.                                                           *)
(***************************************************************************)
EXTENDS ReplicationQueue, PartInfoProofs, SequenceTheorems

States == [metadata_finished : BOOLEAN, data_finished : BOOLEAN]
Seqs   == UNION {[D -> States] : D \in SUBSET Nat}

AltersOf(entries) == {log[n].alter : n \in {k \in entries : log[k].type = "ALTER_METADATA"}}

(* The alter sequence s of a replica that has pulled the ALTERs P, of      *)
(* which Q are in the queue and R are executing.  A version that is missing *)
(* is finished, and everything before it; one whose metadata change is     *)
(* finished is the first.                                                  *)
InOrder(s, P, Q, R) ==
    /\ s \in Seqs
    /\ P \subseteq Nat /\ R \subseteq Q /\ Q \subseteq P
    /\ Q \subseteq DOMAIN s
    /\ \A v \in DOMAIN s : s[v].metadata_finished <=> v \notin Q
    /\ \A v \in DOMAIN s : ~(s[v].metadata_finished /\ s[v].data_finished)
    /\ \A v \in P, h \in DOMAIN s : v \notin DOMAIN s => v < h
    /\ \A v \in P \cap DOMAIN s, h \in DOMAIN s : s[v].metadata_finished => v <= h
    /\ \A v \in R, h \in DOMAIN s : v <= h

LEMMA StateTyped ==
    \A m, d \in BOOLEAN : LET x == [metadata_finished |-> m, data_finished |-> d]
                          IN x \in States /\ x.metadata_finished = m /\ x.data_finished = d
  BY DEF States

LEMMA SeqsFacts ==
    ASSUME NEW s \in Seqs
    PROVE  /\ DOMAIN s \subseteq Nat
           /\ s = [v \in DOMAIN s |-> s[v]]
           /\ \A v \in DOMAIN s : s[v] \in States
  BY DEF Seqs

LEMMA IsSeqs ==
    ASSUME NEW s, DOMAIN s \subseteq Nat, s = [v \in DOMAIN s |-> s[v]],
           \A v \in DOMAIN s : s[v] \in States
    PROVE  s \in Seqs
  <1>1. s \in [DOMAIN s -> States]
    OBVIOUS
  <1> QED
    BY <1>1, Zenon DEF Seqs

(* finishMetadataAlter of the version that is executing.                   *)
LEMMA FinishMetadata ==
    ASSUME NEW s, NEW P, NEW Q, NEW R, InOrder(s, P, Q, R), NEW v \in R
    PROVE  LET t == finishMetadataAlter(s, v)
           IN /\ InOrder(t, P, Q \ {v}, R \ {v})
              /\ \A h \in DOMAIN s : ~s[h].data_finished => h \in DOMAIN t /\ ~t[h].data_finished
  <1> DEFINE t == finishMetadataAlter(s, v)
  <1>1. /\ DOMAIN s \subseteq Nat /\ s = [x \in DOMAIN s |-> s[x]]
        /\ \A x \in DOMAIN s : s[x] \in States
    BY SeqsFacts DEF InOrder
  <1>2. v \in DOMAIN s /\ v \in Nat
    BY DEF InOrder
  <1>3. CASE s[v].data_finished
    <2>1. DOMAIN t = DOMAIN s \ {v} /\ \A x \in DOMAIN t : t[x] = s[x]
      BY <1>3 DEF finishMetadataAlter, Without
    <2>2. t = [x \in DOMAIN t |-> t[x]]
      BY <1>3 DEF finishMetadataAlter, Without
    <2> HIDE DEF t
    <2>3. t \in Seqs
      BY <1>1, <2>1, <2>2, IsSeqs
    <2> QED
      BY <1>1, <1>2, <1>3, <2>1, <2>3 DEF InOrder, t
  <1>4. CASE ~s[v].data_finished
    <2>1. /\ DOMAIN t = DOMAIN s
          /\ \A x \in DOMAIN t : x # v => t[x] = s[x]
          /\ t[v] = [metadata_finished |-> TRUE, data_finished |-> FALSE]
      BY <1>1, <1>2, <1>4 DEF finishMetadataAlter, States
    <2>2. t = [x \in DOMAIN t |-> t[x]]
      BY <1>4 DEF finishMetadataAlter
    <2>0. \A x \in DOMAIN t : t[x] \in States
      BY <1>1, <2>1, StateTyped
    <2> HIDE DEF t
    <2>3. t \in Seqs
      BY <1>1, <2>0, <2>1, <2>2, IsSeqs
    <2>4. \A x \in DOMAIN t : t[x].metadata_finished <=> x \notin Q \ {v}
      BY <1>1, <1>2, <2>1 DEF InOrder
    <2>5. \A x \in DOMAIN t : ~(t[x].metadata_finished /\ t[x].data_finished)
      BY <1>1, <1>2, <2>1 DEF InOrder
    <2>6. \A x \in P \cap DOMAIN t, h \in DOMAIN t : t[x].metadata_finished => x <= h
      BY <1>1, <1>2, <2>1 DEF InOrder
    <2>7. InOrder(t, P, Q \ {v}, R \ {v})
      BY <1>1, <1>2, <2>1, <2>3, <2>4, <2>5, <2>6 DEF InOrder
    <2>8. \A h \in DOMAIN s : ~s[h].data_finished => h \in DOMAIN t /\ ~t[h].data_finished
      BY <1>1, <1>2, <2>1
    <2> QED
      BY <2>7, <2>8 DEF t
  <1> QED
    BY <1>3, <1>4

(* finishDataAlter of a version that has been pulled.                      *)
LEMMA FinishData ==
    ASSUME NEW s, NEW P, NEW Q, NEW R, InOrder(s, P, Q, R), NEW v \in P
    PROVE  LET t == finishDataAlter(s, v)
           IN /\ InOrder(t, P, Q, R)
              /\ \A h \in DOMAIN s : h # v => h \in DOMAIN t /\ t[h] = s[h]
  <1> DEFINE t == finishDataAlter(s, v)
  <1>1. /\ DOMAIN s \subseteq Nat /\ s = [x \in DOMAIN s |-> s[x]]
        /\ \A x \in DOMAIN s : s[x] \in States
    BY SeqsFacts DEF InOrder
  <1>2. v \in Nat
    BY DEF InOrder
  <1>3. CASE \A h \in DOMAIN s : v < h
    BY <1>3 DEF finishDataAlter
  <1>4. CASE ~(\A h \in DOMAIN s : v < h) /\ s[v].metadata_finished
    <2>1. v \in DOMAIN s
      BY <1>1, <1>2, <1>4 DEF InOrder
    <2>2. DOMAIN t = DOMAIN s \ {v} /\ \A x \in DOMAIN t : t[x] = s[x]
      BY <1>4, <2>1 DEF finishDataAlter, Without
    <2>3. t = [x \in DOMAIN t |-> t[x]]
      BY <1>4, <2>1 DEF finishDataAlter, Without
    <2> HIDE DEF t
    <2>4. t \in Seqs
      BY <1>1, <2>2, <2>3, IsSeqs
    <2>5. \A h \in DOMAIN t : v < h
      BY <1>1, <1>2, <1>4, <2>1, <2>2 DEF InOrder
    <2>6. v \notin Q
      BY <1>4, <2>1 DEF InOrder
    <2>7. InOrder(t, P, Q, R)
      BY <1>1, <2>2, <2>4, <2>5, <2>6 DEF InOrder
    <2> QED
      BY <2>2, <2>7 DEF t
  <1>5. CASE ~(\A h \in DOMAIN s : v < h) /\ ~s[v].metadata_finished
    <2>1. v \in DOMAIN s
      BY <1>1, <1>2, <1>5 DEF InOrder
    <2>2. /\ DOMAIN t = DOMAIN s
          /\ \A x \in DOMAIN t : x # v => t[x] = s[x]
          /\ t[v] = [metadata_finished |-> FALSE, data_finished |-> TRUE]
      BY <1>5, <2>1 DEF finishDataAlter, With
    <2>3. t = [x \in DOMAIN t |-> t[x]]
      BY <1>5, <2>1 DEF finishDataAlter, With
    <2>0. \A x \in DOMAIN t : t[x] \in States
      BY <1>1, <2>2, StateTyped
    <2> HIDE DEF t
    <2>4. t \in Seqs
      BY <1>1, <2>0, <2>2, <2>3, IsSeqs
    <2>5. \A x \in DOMAIN t : t[x].metadata_finished <=> x \notin Q
      BY <1>1, <1>5, <2>1, <2>2 DEF InOrder
    <2>6. \A x \in DOMAIN t : ~(t[x].metadata_finished /\ t[x].data_finished)
      BY <1>1, <2>1, <2>2 DEF InOrder
    <2>7. \A x \in P \cap DOMAIN t, h \in DOMAIN t : t[x].metadata_finished => x <= h
      BY <1>1, <1>2, <2>2 DEF InOrder
    <2>8. InOrder(t, P, Q, R)
      BY <1>1, <2>2, <2>4, <2>5, <2>6, <2>7 DEF InOrder
    <2> QED
      BY <2>2, <2>8 DEF t
  <1> QED
    BY <1>3, <1>4, <1>5

(* addMetadataAlter of a version newer than all that have been pulled.     *)
LEMMA AddMetadata ==
    ASSUME NEW s, NEW P, NEW Q, NEW R, InOrder(s, P, Q, R),
           NEW v \in Nat, \A x \in P : x < v
    PROVE  LET t == addMetadataAlter(s, v)
           IN /\ InOrder(t, P \cup {v}, Q \cup {v}, R)
              /\ \A h \in DOMAIN s : h \in DOMAIN t /\ t[h].data_finished = s[h].data_finished
  <1> DEFINE t == addMetadataAlter(s, v)
  <1>1. /\ DOMAIN s \subseteq Nat /\ s = [x \in DOMAIN s |-> s[x]]
        /\ \A x \in DOMAIN s : s[x] \in States
    BY SeqsFacts DEF InOrder
  <1>2. /\ DOMAIN t = DOMAIN s \cup {v}
        /\ \A x \in DOMAIN s : x # v => t[x] = s[x]
        /\ t[v] \in States /\ ~t[v].metadata_finished
        /\ v \in DOMAIN s => t[v].data_finished = s[v].data_finished
        /\ t = [x \in DOMAIN t |-> t[x]]
    <2>1. CASE v \in DOMAIN s
      <3>1. t = [s EXCEPT ![v].metadata_finished = FALSE]
        BY <2>1 DEF addMetadataAlter
      <3> HIDE DEF t
      <3>2. DOMAIN t = DOMAIN s /\ t[v] = [s[v] EXCEPT !.metadata_finished = FALSE]
        BY <2>1, <3>1
      <3>3. t[v] \in States /\ ~t[v].metadata_finished /\ t[v].data_finished = s[v].data_finished
        BY <1>1, <2>1, <3>2 DEF States
      <3> QED
        BY <2>1, <3>1, <3>2, <3>3
    <2>2. CASE v \notin DOMAIN s
      BY <1>1, <2>2, StateTyped DEF addMetadataAlter, With
    <2> QED
      BY <2>1, <2>2
  <1> HIDE DEF t
  <1>3. t \in Seqs
    BY <1>1, <1>2, IsSeqs
  <1>4. v \notin P /\ v \notin Q
    BY DEF InOrder
  <1>5. \A x \in DOMAIN t : t[x].metadata_finished <=> x \notin Q \cup {v}
    BY <1>1, <1>2, <1>4 DEF InOrder
  <1>6. \A x \in DOMAIN t : ~(t[x].metadata_finished /\ t[x].data_finished)
    BY <1>1, <1>2 DEF InOrder
  <1>7. \A x \in P \cup {v}, h \in DOMAIN t : x \notin DOMAIN t => x < h
    BY <1>1, <1>2 DEF InOrder
  <1>8. \A x \in (P \cup {v}) \cap DOMAIN t, h \in DOMAIN t : t[x].metadata_finished => x <= h
    <2> SUFFICES ASSUME NEW x \in (P \cup {v}) \cap DOMAIN t, NEW h \in DOMAIN t,
                        t[x].metadata_finished
                 PROVE  x <= h
      OBVIOUS
    <2>1. x # v /\ x \in P /\ x \in DOMAIN s /\ s[x].metadata_finished /\ x < v
      BY <1>2
    <2> QED
      BY <1>2, <2>1 DEF InOrder
  <1>9. \A x \in R, h \in DOMAIN t : x <= h
    BY <1>2 DEF InOrder
  <1>10. InOrder(t, P \cup {v}, Q \cup {v}, R)
    BY <1>2, <1>3, <1>5, <1>6, <1>7, <1>8, <1>9 DEF InOrder
  <1>11. \A h \in DOMAIN s : h \in DOMAIN t /\ t[h].data_finished = s[h].data_finished
    BY <1>2
  <1> QED
    BY <1>10, <1>11 DEF t

NewAlters(ms) == {mutation_log[m].alter : m \in ms} \ {NoAlter}

(* AddAlters for the mutations of ALTERs that have not been pulled.        *)
LEMMA AddMutations ==
    ASSUME NEW s, NEW P, NEW Q, NEW R, InOrder(s, P, Q, R), NEW ms,
           NewAlters(ms) \subseteq Nat, \A x \in P, w \in NewAlters(ms) : x < w
    PROVE  LET t == AddAlters(s, ms)
           IN /\ InOrder(t, P, Q, R)
              /\ \A h \in DOMAIN s : ~s[h].data_finished => h \in DOMAIN t /\ ~t[h].data_finished
              /\ \A w \in NewAlters(ms) : w \in DOMAIN t /\ ~t[w].data_finished
  <1> DEFINE t == AddAlters(s, ms)
             W == NewAlters(ms)
  <1>1. /\ DOMAIN s \subseteq Nat /\ s = [x \in DOMAIN s |-> s[x]]
        /\ \A x \in DOMAIN s : s[x] \in States
    BY SeqsFacts DEF InOrder
  <1>2. /\ DOMAIN t = DOMAIN s \cup W
        /\ t = [x \in DOMAIN t |-> t[x]]
        /\ \A x \in DOMAIN s : x \notin W => t[x] = s[x]
        /\ \A w \in W : t[w] = addMutationForAlter(s, w)[w]
    BY DEF AddAlters, NewAlters
  <1> HIDE DEF t
  <1>3. ASSUME NEW w \in W
        PROVE  t[w] \in States /\ t[w].metadata_finished /\ ~t[w].data_finished
    <2>1. w \notin P /\ w \notin Q
      BY DEF InOrder
    <2>2. CASE w \in DOMAIN s
      <3>1. t[w] = [s[w] EXCEPT !.data_finished = FALSE]
        BY <1>2, <2>2 DEF addMutationForAlter
      <3>2. s[w] \in States /\ s[w].metadata_finished
        BY <1>1, <2>1, <2>2 DEF InOrder
      <3> QED
        BY <3>1, <3>2 DEF States
    <2>3. CASE w \notin DOMAIN s
      <3>1. t[w] = [metadata_finished |-> TRUE, data_finished |-> FALSE]
        BY <1>2, <2>3 DEF addMutationForAlter, With
      <3> QED
        BY <3>1, StateTyped
    <2> QED
      BY <2>2, <2>3
  <1>4. t \in Seqs
    <2>1. \A x \in DOMAIN t : t[x] \in States
      BY <1>1, <1>2, <1>3
    <2>2. DOMAIN t \subseteq Nat
      BY <1>1, <1>2
    <2> QED
      BY <1>2, <2>1, <2>2, IsSeqs
  <1>5. \A w \in W : w \notin P /\ w \notin Q
    BY DEF InOrder
  <1> HIDE DEF W
  <1>6. \A x \in DOMAIN t : t[x].metadata_finished <=> x \notin Q
    BY <1>2, <1>3, <1>5 DEF InOrder
  <1>7. \A x \in DOMAIN t : ~(t[x].metadata_finished /\ t[x].data_finished)
    BY <1>2, <1>3 DEF InOrder
  <1>8. \A x \in P, h \in DOMAIN t : x \notin DOMAIN t => x < h
    BY <1>2 DEF InOrder, W
  <1>9. \A x \in P \cap DOMAIN t, h \in DOMAIN t : t[x].metadata_finished => x <= h
    <2> SUFFICES ASSUME NEW x \in P \cap DOMAIN t, NEW h \in DOMAIN t, t[x].metadata_finished
                 PROVE  x <= h
      OBVIOUS
    <2>1. x \in DOMAIN s /\ s[x].metadata_finished
      BY <1>2, <1>5
    <2>2. CASE h \in DOMAIN s
      BY <2>1, <2>2 DEF InOrder
    <2>3. CASE h \in W
      <3>1. x < h
        BY <2>3 DEF W
      <3> QED
        BY <1>1, <2>1, <3>1, <2>3 DEF W
    <2> QED
      BY <1>2, <2>2, <2>3
  <1>10. \A x \in R, h \in DOMAIN t : x <= h
    <2> SUFFICES ASSUME NEW x \in R, NEW h \in DOMAIN t PROVE x <= h
      OBVIOUS
    <2>1. x \in P /\ x \in Nat
      BY DEF InOrder
    <2>2. CASE h \in W
      BY <2>1, <2>2 DEF W
    <2> QED
      BY <1>2, <2>2 DEF InOrder
  <1>11. InOrder(t, P, Q, R)
    BY <1>2, <1>4, <1>6, <1>7, <1>8, <1>9, <1>10 DEF InOrder
  <1>12. \A h \in DOMAIN s : ~s[h].data_finished => h \in DOMAIN t /\ ~t[h].data_finished
    BY <1>2, <1>3
  <1>13. \A w \in W : w \in DOMAIN t /\ ~t[w].data_finished
    BY <1>2, <1>3
  <1> QED
    BY <1>11, <1>12, <1>13 DEF t, W

(* The sequence a restarted replica builds from its queue and from the     *)
(* mutations after its pointer.                                            *)
LEMMA Reloaded ==
    ASSUME NEW s, NEW P, NEW R, NEW entries, InOrder(s, P, AltersOf(entries), R), NEW ms,
           NewAlters(ms) \subseteq Nat,
           \A w \in NewAlters(ms) \cap P : w \in DOMAIN s /\ ~s[w].data_finished,
           \A w \in NewAlters(ms) \ P, x \in P : x < w
    PROVE  LET t == AddAlters(LoadAlters(entries), ms)
           IN /\ InOrder(t, P, AltersOf(entries), {})
              /\ \A w \in NewAlters(ms) : w \in DOMAIN t /\ ~t[w].data_finished
  <1> DEFINE l == LoadAlters(entries)
             t == AddAlters(l, ms)
             Q == AltersOf(entries)
             W == NewAlters(ms)
  <1>1. /\ DOMAIN s \subseteq Nat /\ Q \subseteq DOMAIN s
        /\ \A x \in DOMAIN s : s[x] \in States
    BY SeqsFacts DEF InOrder
  <1>2. DOMAIN l = Q /\ \A q \in Q : l[q] = addMetadataAlter(<<>>, q)[q]
    BY DEF LoadAlters, AltersOf
  <1> HIDE DEF l, Q
  <1>3. ASSUME NEW q \in Q
        PROVE  l[q] \in States /\ ~l[q].metadata_finished /\ l[q].data_finished
    <2>1. q \notin DOMAIN <<>>
      OBVIOUS
    <2>2. l[q] = [metadata_finished |-> FALSE, data_finished |-> TRUE]
      BY <1>2, <2>1 DEF addMetadataAlter, With
    <2> QED
      BY <2>2, StateTyped
  <1>4. /\ DOMAIN t = Q \cup W
        /\ t = [x \in DOMAIN t |-> t[x]]
        /\ \A x \in Q : x \notin W => t[x] = l[x]
        /\ \A w \in W : t[w] = addMutationForAlter(l, w)[w]
    BY <1>2 DEF AddAlters, NewAlters
  <1> HIDE DEF t
  <1>5. ASSUME NEW w \in W
        PROVE  t[w] \in States /\ ~t[w].data_finished /\ (t[w].metadata_finished <=> w \notin Q)
    <2>1. CASE w \in Q
      <3>1. t[w] = [l[w] EXCEPT !.data_finished = FALSE]
        BY <1>2, <1>4, <2>1 DEF addMutationForAlter
      <3> QED
        BY <1>3, <2>1, <3>1 DEF States
    <2>2. CASE w \notin Q
      <3>1. t[w] = [metadata_finished |-> TRUE, data_finished |-> FALSE]
        BY <1>2, <1>4, <2>2 DEF addMutationForAlter, With
      <3> QED
        BY <2>2, <3>1, StateTyped
    <2> QED
      BY <2>1, <2>2
  <1>6. t \in Seqs
    <2>1. \A x \in DOMAIN t : t[x] \in States
      BY <1>3, <1>4, <1>5
    <2>2. DOMAIN t \subseteq Nat
      BY <1>1, <1>4
    <2> QED
      BY <1>4, <2>1, <2>2, IsSeqs
  <1>7. \A x \in DOMAIN t : t[x].metadata_finished <=> x \notin Q
    BY <1>3, <1>4, <1>5
  <1>8. \A x \in DOMAIN t : ~(t[x].metadata_finished /\ t[x].data_finished)
    BY <1>3, <1>4, <1>5
  <1> HIDE DEF W
  <1>9. \A h \in DOMAIN t : h \in DOMAIN s \/ h \in W \ P
    BY <1>1, <1>4 DEF W
  <1>10. P \subseteq Nat
    BY DEF InOrder
  <1>11. \A x \in P, h \in DOMAIN t : x \notin DOMAIN t => x < h
    <2> SUFFICES ASSUME NEW x \in P, NEW h \in DOMAIN t, x \notin DOMAIN t PROVE x < h
      OBVIOUS
    <2>1. CASE h \in W \ P
      BY <2>1 DEF W
    <2>2. CASE h \in DOMAIN s /\ x \notin DOMAIN s
      BY <2>2 DEF InOrder
    <2>3. CASE h \in DOMAIN s /\ x \in DOMAIN s
      <3>1. x \notin Q
        BY <1>4
      <3>2. x <= h
        BY <2>3, <3>1 DEF InOrder, Q
      <3>3. x # h
        OBVIOUS
      <3> QED
        BY <1>1, <2>3, <3>2, <3>3
    <2> QED
      BY <1>9, <2>1, <2>2, <2>3
  <1>12. \A x \in P \cap DOMAIN t, h \in DOMAIN t : t[x].metadata_finished => x <= h
    <2> SUFFICES ASSUME NEW x \in P \cap DOMAIN t, NEW h \in DOMAIN t, t[x].metadata_finished
                 PROVE  x <= h
      OBVIOUS
    <2>1. x \notin Q /\ x \in W
      BY <1>4, <1>7
    <2>2. x \in DOMAIN s /\ s[x].metadata_finished
      BY <2>1 DEF InOrder, W, Q
    <2>3. CASE h \in W \ P
      <3>1. x < h
        BY <2>3 DEF W
      <3>2. x \in Nat /\ h \in Nat
        BY <1>10, <2>3 DEF W
      <3> QED
        BY <3>1, <3>2
    <2>4. CASE h \in DOMAIN s
      BY <2>2, <2>4 DEF InOrder
    <2> QED
      BY <1>9, <2>3, <2>4
  <1>13. InOrder(t, P, Q, {})
    <2>1. Q \subseteq P
      BY DEF InOrder, Q
    <2> QED
      BY <1>4, <1>6, <1>7, <1>8, <1>10, <1>11, <1>12, <2>1 DEF InOrder
  <1>14. \A w \in W : w \in DOMAIN t /\ ~t[w].data_finished
    BY <1>4, <1>5
  <1> QED
    BY <1>13, <1>14 DEF t, l, Q, W

(* finishDataAlter of every mutation of ms, whose ALTERs have been pulled. *)
LEMMA FinishDataAlters ==
    ASSUME NEW P, NEW Q, NEW R, InOrder(alter_sequence, P, Q, R),
           Len(mutation_log) \in Nat, NEW ms,
           \A m \in ms : mutation_log[m].alter \in P \cup {NoAlter}
    PROVE  LET t == finishDataAlters(ms)
           IN /\ InOrder(t, P, Q, R)
              /\ \A h \in DOMAIN alter_sequence : h \notin NewAlters(ms) =>
                    h \in DOMAIN t /\ t[h] = alter_sequence[h]
  <1> DEFINE N == Len(mutation_log)
             b == alter_sequence
             X == {s \in Seqs : InOrder(s, P, Q, R)}
             Step(s, m) == IF m \in ms THEN finishDataAlter(s, mutation_log[m].alter) ELSE s
             L(g) == g = [m \in 0..N |-> IF m = 0 THEN alter_sequence
                                         ELSE IF m \in ms
                                         THEN finishDataAlter(g[m - 1], mutation_log[m].alter)
                                         ELSE g[m - 1]]
             seq == CHOOSE g : L(g)
             F == [p \in X \X (1..N) |-> Step(p[1], p[2])]
  <1>1. finishDataAlters(ms) = seq[N]
    BY DEF finishDataAlters
  <1>2. N \in Nat /\ b \in X
    BY DEF InOrder
  <1>3. ASSUME NEW s \in X, NEW m \in 1..N
        PROVE  /\ Step(s, m) \in X
               /\ \A h \in DOMAIN s : h \notin NewAlters(ms) =>
                     h \in DOMAIN Step(s, m) /\ Step(s, m)[h] = s[h]
    <2> DEFINE v == mutation_log[m].alter
    <2>1. CASE m \notin ms
      BY <2>1
    <2>2. CASE m \in ms /\ v = NoAlter
      <3>1. \A h \in DOMAIN s : v < h
        BY <2>2, SeqsFacts DEF NoAlter
      <3>2. Step(s, m) = s
        BY <2>2, <3>1 DEF finishDataAlter
      <3> QED
        BY <3>2
    <2>3. CASE m \in ms /\ v # NoAlter
      <3>1. v \in P /\ v \in NewAlters(ms)
        BY <2>3 DEF NewAlters
      <3>2. Step(s, m) = finishDataAlter(s, v)
        BY <2>3
      <3> HIDE DEF Step, v
      <3>3. /\ InOrder(Step(s, m), P, Q, R)
            /\ \A h \in DOMAIN s : h # v => h \in DOMAIN Step(s, m) /\ Step(s, m)[h] = s[h]
        <4>1. InOrder(s, P, Q, R)
          OBVIOUS
        <4> QED
          BY <3>1, <3>2, <4>1, FinishData
      <3> QED
        BY <3>1, <3>3 DEF InOrder
    <2> QED
      BY <2>1, <2>2, <2>3
  <1> HIDE DEF X
  <1>4. F \in [X \X (1..N) -> X]
    BY <1>3
  <1>5. \A x \in X, i \in 1..N : F[<<x, i>>] = Step(x, i)
    OBVIOUS
  <1> HIDE DEF F, N
  <1>6. PICK g \in [0..N -> X] : g[0] = b /\ \A i \in 1..N : g[i] = F[<<g[i - 1], i>>]
    <2>1. \E g : IsLoop(g, b, N, X, F)
      BY <1>2, <1>4, LoopExists
    <2> QED
      BY <2>1, Zenon DEF IsLoop
  <1>7. L(g)
    <2>1. ASSUME NEW i \in 0..N PROVE g[i] = IF i = 0 THEN b ELSE Step(g[i - 1], i)
      <3>1. CASE i = 0
        BY <1>6, <3>1
      <3>2. CASE i \in 1..N
        <4>1. i - 1 \in 0..N /\ i # 0
          BY <1>2, <3>2
        <4>2. g[i - 1] \in X
          BY <4>1
        <4> HIDE DEF Step
        <4> QED
          BY <1>5, <1>6, <3>2, <4>1, <4>2
      <3> QED
        BY <1>2, <3>1, <3>2
    <2> QED
      BY <1>6, <2>1
  <1> HIDE DEF L
  <1>8. L(seq)
    BY <1>7, Zenon
  <1> HIDE DEF seq
  <1>9. /\ seq[0] = b
        /\ \A i \in 1..N : seq[i] = Step(seq[i - 1], i)
    BY <1>2, <1>8 DEF L
  <1> DEFINE Kept(s) == \A h \in DOMAIN b : h \notin NewAlters(ms) =>
                            h \in DOMAIN s /\ s[h] = b[h]
             S == {k \in 0..N : seq[k] \in X /\ Kept(seq[k])}
  <1>10. 0 \in S
    BY <1>2, <1>9
  <1>11. ASSUME NEW k \in 0..N - 1, k \in S PROVE k + 1 \in S
    <2>1. k + 1 \in 1..N /\ k + 1 \in 0..N /\ (k + 1) - 1 = k
      BY <1>2
    <2>2. seq[k + 1] = Step(seq[k], k + 1)
      BY <1>9, <2>1
    <2>3. seq[k] \in X /\ Kept(seq[k])
      BY <1>11
    <2> HIDE DEF Step
    <2>4. seq[k + 1] \in X /\ Kept(seq[k + 1])
      BY <1>3, <2>1, <2>2, <2>3
    <2> QED
      BY <2>1, <2>4
  <1> HIDE DEF S
  <1>12. 0..N \subseteq S
    BY <1>2, <1>10, <1>11, UpTo
  <1>13. seq[N] \in X /\ Kept(seq[N])
    BY <1>2, <1>12 DEF S
  <1> QED
    BY <1>1, <1>13 DEF X

(***************************************************************************)
(* The invariant                                                           *)
(***************************************************************************)
IsMeta(n) == log[n].type = "ALTER_METADATA"

(* The log: ALTERs have growing versions, and the entry of an ALTER comes  *)
(* before the entries that execute its mutation.                           *)
Written ==
    /\ log \in Seq(ToSet(log)) /\ mutation_log \in Seq(ToSet(mutation_log))
    /\ \A n \in 1..Len(log) : log[n].alter \in Nat \cup {NoAlter}
    /\ \A n \in 1..Len(log) : IsMeta(n) => log[n].alter # NoAlter
    /\ \A n, k \in 1..Len(log) : IsMeta(n) /\ IsMeta(k) /\ n < k => log[n].alter < log[k].alter
    /\ \A n \in 1..Len(log) : log[n].alter \in AltersOf(1..n) \cup {NoAlter}
    /\ \A n \in 1..Len(log) : log[n].type \in Simple => log[n].range = {}
    /\ \A m \in 1..Len(mutation_log) :
          mutation_log[m].alter \in AltersOf(1..Len(log)) \cup {NoAlter}
    /\ \A m, k \in 1..Len(mutation_log) :
          mutation_log[m].alter = mutation_log[k].alter => m = k \/ mutation_log[m].alter = NoAlter

(* What the replica has read: an ALTER that is pulled has its mutation     *)
(* known, and a mutation that the pointer has passed has its ALTER pulled. *)
Pointers ==
    /\ log_pointer \in Nat /\ listed \in Nat /\ log_pointer <= listed /\ listed <= Len(log)
    /\ mutation_pointer \in Nat /\ zk_mutation_pointer \in Nat
    /\ mutation_pointer <= zk_mutation_pointer /\ zk_mutation_pointer <= Len(mutation_log)
    /\ DOMAIN mutations \subseteq 1..Len(mutation_log)
    /\ \A m \in 1..zk_mutation_pointer :
          mutation_log[m].alter \in AltersOf(1..log_pointer) \cup {NoAlter}
    /\ \A m \in 1..Len(mutation_log) :
          mutation_log[m].alter \in AltersOf(1..log_pointer) => m \in DOMAIN mutations
    /\ fresh => \A m \in 1..Len(mutation_log) :
          mutation_log[m].alter \in AltersOf(1..listed) => m \in DOMAIN mutations

(* The mutations that may be finished are ahead of the pointer, and the    *)
(* ALTERs of all up to them are in the log that is being pulled.           *)
Finalizing ==
    /\ {"stage", "candidates", "upto"} \subseteq DOMAIN finalizing
    /\ \A c \in finalizing.candidates : c \in 1..Len(mutation_log) /\ c > mutation_pointer
    /\ finalizing.stage = "pulling" =>
          /\ finalizing.upto \in Nat /\ finalizing.upto <= Len(log)
          /\ \A c \in finalizing.candidates : \A m \in 1..c :
                mutation_log[m].alter \in AltersOf(1..finalizing.upto) \cup {NoAlter}
    /\ finalizing.stage = "finished" =>
          /\ finalizing.candidates # {}
          /\ \A c \in finalizing.candidates : c <= zk_mutation_pointer

(* Only the entry that has been removed from memory and is still tagged    *)
(* has a znode and is not in the queue.                                    *)
Entries ==
    /\ queue \subseteq znodes /\ znodes \subseteq 1..log_pointer /\ Executing \subseteq 1..log_pointer
    /\ \A n \in Executing : {"stage", "removed_by_other"} \subseteq DOMAIN running[n]
    /\ \A n \in znodes \ queue : n \in Executing /\ running[n].stage = "removed"
    /\ \A n \in Executing :
          n \in queue <=> running[n].stage # "removed" /\ running[n].removed_by_other # TRUE

Sequence ==
    InOrder(alter_sequence, AltersOf(1..log_pointer), AltersOf(queue),
            AltersOf(queue \cap Executing))

(* The data change of an ALTER is awaited while its mutation is ahead of   *)
(* the pointer.                                                            *)
Awaited ==
    \A m \in DOMAIN mutations :
        LET v == mutation_log[m].alter
        IN m > mutation_pointer /\ v # NoAlter =>
               v \in DOMAIN alter_sequence /\ ~alter_sequence[v].data_finished

IInv == Written /\ Pointers /\ Finalizing /\ Entries /\ Sequence /\ Awaited

(***************************************************************************)
(* The log grows                                                           *)
(***************************************************************************)
LEMMA Appended ==
    ASSUME NEW s, s \in Seq(ToSet(s)), NEW e
    PROVE  LET t == Append(s, e)
           IN /\ t \in Seq(ToSet(t)) /\ Len(s) \in Nat /\ Len(t) = Len(s) + 1
              /\ \A n \in 1..Len(s) : t[n] = s[n]
              /\ t[Len(s) + 1] = e
  <1> DEFINE S == ToSet(s) \cup {e}
             t == Append(s, e)
  <1>1. s \in Seq(S)
    OBVIOUS
  <1>2. /\ t \in Seq(S) /\ Len(s) \in Nat /\ Len(t) = Len(s) + 1
        /\ \A n \in 1..Len(s) : t[n] = s[n]
        /\ t[Len(s) + 1] = e
    BY <1>1
  <1> HIDE DEF t
  <1>3. \A n \in 1..Len(t) : t[n] \in ToSet(t)
    BY <1>2 DEF ToSet
  <1>4. t \in Seq(ToSet(t))
    BY <1>2, <1>3
  <1> QED
    BY <1>2, <1>4 DEF t

LEMMA LogFacts ==
    ASSUME Written
    PROVE  /\ Len(log) \in Nat /\ DOMAIN log = 1..Len(log)
           /\ Len(mutation_log) \in Nat /\ DOMAIN mutation_log = 1..Len(mutation_log)
           /\ AltersOf(1..Len(log)) \subseteq Nat
           /\ \A n \in 1..Len(log) : IsMeta(n) => log[n].alter \in AltersOf(1..Len(log))
  BY DEF Written, AltersOf, IsMeta

(* Versions of ALTERs that come later are larger.                          *)
LEMMA Later ==
    ASSUME Written, NEW p \in Nat, p <= Len(log),
           NEW v \in AltersOf(1..p), NEW w \in AltersOf(1..Len(log)), w \notin AltersOf(1..p)
    PROVE  v < w
  <1>1. PICK n \in 1..p : IsMeta(n) /\ log[n].alter = v
    BY DEF AltersOf, IsMeta
  <1>2. PICK k \in 1..Len(log) : IsMeta(k) /\ log[k].alter = w
    BY DEF AltersOf, IsMeta
  <1>3. k \notin 1..p
    BY <1>2 DEF AltersOf, IsMeta
  <1>4. n \in 1..Len(log) /\ n < k
    BY <1>3, LogFacts
  <1> QED
    BY <1>1, <1>2, <1>4 DEF Written

(* An ALTER has one entry.                                                 *)
LEMMA OneEntry ==
    ASSUME Written, NEW E \in SUBSET (1..Len(log)), NEW n \in 1..Len(log), IsMeta(n)
    PROVE  log[n].alter \in AltersOf(E) <=> n \in E
  <1>1. ASSUME log[n].alter \in AltersOf(E) PROVE n \in E
    <2>1. PICK k \in E : IsMeta(k) /\ log[k].alter = log[n].alter
      BY <1>1 DEF AltersOf, IsMeta
    <2>2. log[n].alter \in Nat
      BY LogFacts
    <2>3. ~(n < k) /\ ~(k < n)
      BY <2>1, <2>2 DEF Written
    <2>4. n = k
      BY <2>3, LogFacts
    <2> QED
      BY <2>4
  <1>2. ASSUME n \in E PROVE log[n].alter \in AltersOf(E)
    BY <1>2 DEF AltersOf, IsMeta
  <1> QED
    BY <1>1, <1>2

(* The version of a new ALTER.                                             *)
LEMMA NewVersion ==
    ASSUME Written, AlterVersions # {}
    PROVE  Max(AlterVersions) \in Nat /\ \A v \in AltersOf(1..Len(log)) : v < Max(AlterVersions) + 1
  <1> DEFINE A == {n \in 1..Len(log) : IsMeta(n)}
  <1>1. AlterVersions = AltersOf(1..Len(log))
    <2>1. AltersOf(1..Len(log)) \subseteq AlterVersions
      BY LogFacts DEF AltersOf, AlterVersions, IsMeta, Written
    <2>2. ASSUME NEW v \in AlterVersions PROVE v \in AltersOf(1..Len(log))
      <3>1. PICK n \in 1..Len(log) : log[n].alter = v /\ v # NoAlter
        BY LogFacts DEF AlterVersions
      <3>2. v \in AltersOf(1..n)
        BY <3>1 DEF Written
      <3>3. 1..n \subseteq 1..Len(log)
        BY LogFacts
      <3> QED
        BY <3>2, <3>3 DEF AltersOf
    <2> QED
      BY <2>1, <2>2
  <1>2. A # {}
    BY <1>1 DEF AltersOf, IsMeta
  <1>3. A \in SUBSET (0..Len(log))
    BY LogFacts
  <1>4. PICK n \in A : \A k \in A : n >= k
    BY <1>2, <1>3, LogFacts, Greatest
  <1>5. log[n].alter \in AlterVersions
    BY <1>1 DEF AltersOf, IsMeta
  <1>6. ASSUME NEW v \in AlterVersions PROVE log[n].alter >= v
    <2>1. PICK k \in A : log[k].alter = v
      BY <1>1 DEF AltersOf, IsMeta
    <2>2. n = k \/ k < n
      BY <1>4, LogFacts
    <2>3. log[n].alter \in Nat /\ v \in Nat
      BY <1>1, <1>5, LogFacts
    <2> QED
      BY <2>1, <2>2, <2>3 DEF Written
  <1>7. \E x \in AlterVersions : \A v \in AlterVersions : x >= v
    BY <1>5, <1>6
  <1>8. Max(AlterVersions) \in AlterVersions /\ \A v \in AlterVersions : Max(AlterVersions) >= v
    BY <1>7, Zenon DEF Max
  <1> QED
    BY <1>1, <1>8, LogFacts

(* What a step of the table writes: an ALTER with a new version, or an     *)
(* entry that executes a mutation or belongs to no ALTER; and a mutation,  *)
(* of that ALTER or of none.                                               *)
WritesAlter(e) ==
    /\ e.type = "ALTER_METADATA" /\ e.alter \in Nat
    /\ \A v \in AltersOf(1..Len(log)) : v < e.alter
    /\ \/ mutation_log' = mutation_log
       \/ \E x : mutation_log' = Append(mutation_log, x) /\ x.alter = e.alter

WritesEntry(e) ==
    /\ e.type # "ALTER_METADATA" /\ (e.type \in Simple => e.range = {})
    /\ e.alter = NoAlter \/ \E m \in 1..Len(mutation_log) : e.alter = mutation_log[m].alter
    /\ mutation_log' = mutation_log

TableEffect ==
    \/ log' = log /\ mutation_log' = mutation_log
    \/ log' = log /\ \E x : mutation_log' = Append(mutation_log, x) /\ x.alter = NoAlter
    \/ \E e : log' = Append(log, e) /\ (WritesAlter(e) \/ WritesEntry(e))

LEMMA TableStepWrites ==
    ASSUME Written, TableStep
    PROVE  TableEffect
  <1>1. \A type : Entry(type).type = type /\ Entry(type).alter = NoAlter
    BY DEF Entry
  <1>2. CASE allocateBlockNumber
    BY <1>2 DEF allocateBlockNumber, TableEffect
  <1>3. CASE \E b \in committing : commitInsert(b)
    <2>1. PICK b : log' = Append(log, [Entry("GET_PART") EXCEPT !.new = {Block(b)}])
                   /\ mutation_log' = mutation_log
      BY <1>3 DEF commitInsert, Write
    <2> DEFINE e == [Entry("GET_PART") EXCEPT !.new = {Block(b)}]
    <2>2. e.type = "GET_PART" /\ e.alter = NoAlter /\ e.range = {}
      BY DEF Entry
    <2> HIDE DEF e
    <2>3. WritesEntry(e)
      BY <2>1, <2>2 DEF WritesEntry
    <2> QED
      BY <2>1, <2>3 DEF TableEffect, e
  <1>4. CASE \E s \in MergeCandidates : assignMerge(s)
    <2>1. PICK s, q : log' = Append(log, [Entry("MERGE_PARTS") EXCEPT !.new = q, !.sources = s])
                      /\ mutation_log' = mutation_log
      BY <1>4 DEF assignMerge, Write
    <2> DEFINE e == [Entry("MERGE_PARTS") EXCEPT !.new = q, !.sources = s]
    <2>2. e.type = "MERGE_PARTS" /\ e.alter = NoAlter /\ e.range = {}
      BY DEF Entry
    <2> HIDE DEF e
    <2>3. WritesEntry(e)
      BY <2>1, <2>2 DEF WritesEntry
    <2> QED
      BY <2>1, <2>3 DEF TableEffect, e
  <1>5. CASE mutate(NoAlter)
    <2>1. log' = log /\ mutation_log' = Append(mutation_log, [version |-> next_block, alter |-> NoAlter])
      BY <1>5 DEF mutate
    <2>2. [version |-> next_block, alter |-> NoAlter].alter = NoAlter
      OBVIOUS
    <2> QED
      BY <2>1, <2>2 DEF TableEffect
  <1>6. CASE \E b \in BOOLEAN : alter(b)
    <2> DEFINE version == IF AlterVersions = {} THEN 1 ELSE Max(AlterVersions) + 1
               e == [Entry("ALTER_METADATA") EXCEPT !.alter = version]
               x == [version |-> next_block, alter |-> version]
    <2>1. /\ log' = Append(log, e)
          /\ mutation_log' = mutation_log \/ mutation_log' = Append(mutation_log, x)
      BY <1>6 DEF alter, Write
    <2>2. e.type = "ALTER_METADATA" /\ e.alter = version /\ x.alter = version
      BY DEF Entry
    <2>3. version \in Nat /\ \A v \in AltersOf(1..Len(log)) : v < version
      <3>1. CASE AlterVersions = {}
        <4>1. AltersOf(1..Len(log)) = {}
          <5> SUFFICES ASSUME NEW n \in 1..Len(log), IsMeta(n) PROVE FALSE
            BY DEF AltersOf, IsMeta
          <5>1. n \in DOMAIN log /\ log[n].alter # NoAlter
            BY LogFacts DEF Written
          <5> QED
            BY <3>1, <5>1 DEF AlterVersions
        <4> QED
          BY <3>1, <4>1
      <3>2. CASE AlterVersions # {}
        BY <3>2, NewVersion
      <3> QED
        BY <3>1, <3>2
    <2> HIDE DEF version, e, x
    <2>4. WritesAlter(e)
      BY <2>1, <2>2, <2>3 DEF WritesAlter
    <2> QED
      BY <2>1, <2>4 DEF TableEffect
  <1>7. CASE \E m \in DOMAIN mutation_log, p \in Final : assignMutation(p, m)
    <2>0. PICK m \in DOMAIN mutation_log : \E p \in Final : assignMutation(p, m)
      BY <1>7
    <2>1. PICK q, s :
              /\ log' = Append(log, [Entry("MUTATE_PART") EXCEPT !.new = q, !.sources = s,
                                         !.alter = mutation_log[m].alter])
              /\ mutation_log' = mutation_log
      BY <2>0 DEF assignMutation, Write
    <2> DEFINE e == [Entry("MUTATE_PART") EXCEPT !.new = q, !.sources = s,
                        !.alter = mutation_log[m].alter]
    <2>2. e.type = "MUTATE_PART" /\ e.alter = mutation_log[m].alter /\ e.range = {}
      BY DEF Entry
    <2> HIDE DEF e
    <2>3. WritesEntry(e)
      BY <2>1, <2>2, LogFacts DEF WritesEntry
    <2> QED
      BY <2>1, <2>3 DEF TableEffect, e
  <1>8. CASE dropPartition
    <2>1. PICK q : log' = Append(log, [Entry("DROP_RANGE") EXCEPT !.new = q])
                   /\ mutation_log' = mutation_log
      BY <1>8 DEF dropPartition, Write
    <2> DEFINE e == [Entry("DROP_RANGE") EXCEPT !.new = q]
    <2>2. e.type = "DROP_RANGE" /\ e.alter = NoAlter /\ e.type \notin Simple
      BY DEF Entry, Simple
    <2> HIDE DEF e
    <2>3. WritesEntry(e)
      BY <2>1, <2>2 DEF WritesEntry
    <2> QED
      BY <2>1, <2>3 DEF TableEffect, e
  <1>9. CASE replacePartition \/ \E count \in 1..scenario.blocks : attachPartition(count)
    <2>1. PICK r, q : log' = Append(log, [Entry("REPLACE_RANGE") EXCEPT !.range = r, !.parts = q])
                      /\ mutation_log' = mutation_log
      BY <1>9 DEF replacePartition, attachPartition, Write
    <2> DEFINE e == [Entry("REPLACE_RANGE") EXCEPT !.range = r, !.parts = q]
    <2>2. e.type = "REPLACE_RANGE" /\ e.alter = NoAlter /\ e.type \notin Simple
      BY DEF Entry, Simple
    <2> HIDE DEF e
    <2>3. WritesEntry(e)
      BY <2>1, <2>2 DEF WritesEntry
    <2> QED
      BY <2>1, <2>3 DEF TableEffect, e
  <1>10. CASE \E p \in Final : dropPart(p)
    <2>1. PICK q : log' = Append(log, [Entry("DROP_PART") EXCEPT !.new = q])
                   /\ mutation_log' = mutation_log
      BY <1>10 DEF dropPart, Write
    <2> DEFINE e == [Entry("DROP_PART") EXCEPT !.new = q]
    <2>2. e.type = "DROP_PART" /\ e.alter = NoAlter /\ e.type \notin Simple
      BY DEF Entry, Simple
    <2> HIDE DEF e
    <2>3. WritesEntry(e)
      BY <2>1, <2>2 DEF WritesEntry
    <2> QED
      BY <2>1, <2>3 DEF TableEffect, e
  <1> QED
    BY <1>2, <1>3, <1>4, <1>5, <1>6, <1>7, <1>8, <1>9, <1>10, Zenon DEF TableStep

(* The log keeps what it holds, and a new mutation belongs to no ALTER     *)
(* that was there before.                                                  *)
Grows ==
    /\ Len(log)' \in Nat /\ Len(log) <= Len(log)'
    /\ \A n \in 1..Len(log) : log'[n] = log[n]
    /\ Len(mutation_log)' \in Nat /\ Len(mutation_log) <= Len(mutation_log)'
    /\ \A m \in 1..Len(mutation_log) : mutation_log'[m] = mutation_log[m]
    /\ \A m \in 1..Len(mutation_log') :
          m \notin 1..Len(mutation_log) => mutation_log'[m].alter \notin AltersOf(1..Len(log))

LEMMA Growth ==
    ASSUME Written, TableEffect
    PROVE  Written' /\ Grows
  <1>0. /\ Len(log) \in Nat /\ Len(mutation_log) \in Nat
        /\ NoAlter \notin AltersOf(1..Len(log))
    BY LogFacts DEF NoAlter
  <1>1. CASE log' = log /\ mutation_log' = mutation_log
    BY <1>0, <1>1 DEF Written, Grows, AltersOf, IsMeta
  <1>2. CASE log' = log /\ \E x : mutation_log' = Append(mutation_log, x) /\ x.alter = NoAlter
    <2>1. PICK x : mutation_log' = Append(mutation_log, x) /\ x.alter = NoAlter
      BY <1>2
    <2>2. /\ mutation_log' \in Seq(ToSet(mutation_log')) /\ Len(mutation_log') = Len(mutation_log) + 1
          /\ \A m \in 1..Len(mutation_log) : mutation_log'[m] = mutation_log[m]
          /\ mutation_log'[Len(mutation_log) + 1] = x
      BY <2>1, Appended DEF Written
    <2>3. \A E : AltersOf(E)' = AltersOf(E')
      BY <1>2 DEF AltersOf
    <2>4. \A m \in 1..Len(mutation_log') : m \in 1..Len(mutation_log) \/ m = Len(mutation_log) + 1
      BY <1>0, <2>2
    <2> QED
      BY <1>0, <1>2, <2>1, <2>2, <2>4 DEF Written, Grows, AltersOf, IsMeta
  <1>3. CASE \E e : log' = Append(log, e) /\ (WritesAlter(e) \/ WritesEntry(e))
    <2>1. PICK e : log' = Append(log, e) /\ (WritesAlter(e) \/ WritesEntry(e))
      BY <1>3
    <2> DEFINE N == Len(log)
               M == Len(mutation_log)
    <2>2. /\ log' \in Seq(ToSet(log')) /\ Len(log') = N + 1
          /\ \A n \in 1..N : log'[n] = log[n]
          /\ log'[N + 1] = e
      BY <2>1, Appended DEF Written
    <2>3. \A n \in 1..N + 1 : n \in 1..N \/ n = N + 1
      BY <1>0
    <2>4. \A n \in 1..N : AltersOf(1..n)' = AltersOf(1..n)
      <3> SUFFICES ASSUME NEW n \in 1..N PROVE AltersOf(1..n)' = AltersOf(1..n)
        OBVIOUS
      <3>1. \A k \in 1..n : log'[k] = log[k]
        BY <1>0, <2>2
      <3> QED
        BY <3>1 DEF AltersOf
    <2>5. \A v : v \in AltersOf(1..Len(log))' <=>
                     v \in AltersOf(1..N) \/ (e.type = "ALTER_METADATA" /\ v = e.alter)
      <3>1. ASSUME NEW v, v \in AltersOf(1..N) PROVE v \in AltersOf(1..Len(log))'
        BY <1>0, <2>2, <3>1 DEF AltersOf
      <3>2. ASSUME e.type = "ALTER_METADATA" PROVE e.alter \in AltersOf(1..Len(log))'
        BY <1>0, <2>2, <3>2 DEF AltersOf
      <3>3. ASSUME NEW v, v \in AltersOf(1..Len(log))', v \notin AltersOf(1..N)
            PROVE  e.type = "ALTER_METADATA" /\ v = e.alter
        <4>1. PICK n \in 1..N + 1 : log'[n].type = "ALTER_METADATA" /\ log'[n].alter = v
          BY <2>2, <3>3 DEF AltersOf
        <4>2. n \notin 1..N
          BY <2>2, <3>3, <4>1 DEF AltersOf
        <4> QED
          BY <2>2, <2>3, <4>1, <4>2
      <3> QED
        BY <3>1, <3>2, <3>3
    <2>6. \A m \in 1..M : mutation_log[m].alter \in AltersOf(1..N) \cup {NoAlter}
      BY DEF Written
    <2>7. /\ e.alter \in Nat \cup {NoAlter}
          /\ e.type = "ALTER_METADATA" => /\ e.alter # NoAlter /\ WritesAlter(e)
                                          /\ \A v \in AltersOf(1..N) : v < e.alter
          /\ e.type # "ALTER_METADATA" => e.alter \in AltersOf(1..N) \cup {NoAlter}
      BY <2>1, <2>6, LogFacts DEF WritesAlter, WritesEntry, NoAlter
    <2>0. \A n \in 1..Len(log)' : log'[n].type \in Simple => log'[n].range = {}
      <3>1. e.type \in Simple => e.range = {}
        BY <2>1 DEF WritesAlter, WritesEntry, Simple
      <3> QED
        BY <2>2, <2>3, <3>1 DEF Written
    <2>8. /\ \A n \in 1..Len(log)' : log'[n].alter \in Nat \cup {NoAlter}
          /\ \A n \in 1..Len(log)' : IsMeta(n)' => log'[n].alter # NoAlter
      BY <2>2, <2>3, <2>7 DEF Written, IsMeta
    <2>9. ASSUME NEW n \in 1..N + 1, NEW k \in 1..N + 1, IsMeta(n)', IsMeta(k)', n < k
          PROVE  log'[n].alter < log'[k].alter
      <3>1. CASE k \in 1..N
        <4>1. n \in 1..N
          BY <1>0, <2>9, <3>1
        <4> QED
          BY <2>2, <2>9, <3>1, <4>1 DEF Written, IsMeta
      <3>2. CASE k = N + 1
        <4>1. n \in 1..N
          BY <1>0, <2>9, <3>2
        <4>2. log'[n].alter \in AltersOf(1..N)
          BY <2>2, <2>9, <4>1, LogFacts DEF IsMeta
        <4> QED
          BY <2>2, <2>7, <2>9, <3>2, <4>2 DEF IsMeta
      <3> QED
        BY <2>3, <3>1, <3>2
    <2>10. ASSUME NEW n \in 1..N + 1 PROVE log'[n].alter \in AltersOf(1..n)' \cup {NoAlter}
      <3>1. CASE n \in 1..N
        BY <2>2, <2>4, <3>1 DEF Written
      <3>2. CASE n = N + 1
        BY <2>2, <2>5, <2>7, <3>2
      <3> QED
        BY <2>3, <3>1, <3>2
    <2>11. CASE mutation_log' = mutation_log
      <3>1. \A m \in 1..M : mutation_log'[m].alter \in AltersOf(1..Len(log))' \cup {NoAlter}
        BY <2>5, <2>6, <2>11
      <3>2. Written'
        BY <2>0, <2>2, <2>8, <2>9, <2>10, <2>11, <3>1 DEF Written
      <3> QED
        BY <1>0, <2>2, <2>11, <3>2 DEF Grows
    <2>12. CASE WritesAlter(e) /\ \E x : mutation_log' = Append(mutation_log, x) /\ x.alter = e.alter
      <3>1. PICK x : mutation_log' = Append(mutation_log, x) /\ x.alter = e.alter
        BY <2>12
      <3>2. /\ mutation_log' \in Seq(ToSet(mutation_log')) /\ Len(mutation_log') = M + 1
            /\ \A m \in 1..M : mutation_log'[m] = mutation_log[m]
            /\ mutation_log'[M + 1] = x
        BY <3>1, Appended DEF Written
      <3>3. \A m \in 1..M + 1 : m \in 1..M \/ m = M + 1
        BY <1>0
      <3>4. x.alter \notin AltersOf(1..N) /\ x.alter # NoAlter /\ x.alter \in AltersOf(1..Len(log))'
        <4>1. e.type = "ALTER_METADATA" /\ e.alter \in Nat /\ \A v \in AltersOf(1..N) : v < e.alter
          BY <2>12 DEF WritesAlter
        <4> QED
          BY <2>5, <2>7, <3>1, <4>1
      <3>5. \A m \in 1..M + 1 : mutation_log'[m].alter \in AltersOf(1..Len(log))' \cup {NoAlter}
        BY <2>5, <2>6, <3>2, <3>3, <3>4
      <3>6. ASSUME NEW m \in 1..M + 1, NEW k \in 1..M + 1,
                   mutation_log'[m].alter = mutation_log'[k].alter, m # k
            PROVE  mutation_log'[m].alter = NoAlter
        <4>1. CASE m \in 1..M /\ k \in 1..M
          BY <3>2, <3>6, <4>1 DEF Written
        <4>2. CASE m = M + 1 \/ k = M + 1
          BY <2>6, <3>2, <3>3, <3>4, <3>6, <4>2
        <4> QED
          BY <3>3, <4>1, <4>2
      <3>7. Written'
        BY <2>0, <2>2, <2>8, <2>9, <2>10, <3>2, <3>5, <3>6 DEF Written
      <3>8. Grows
        BY <1>0, <2>2, <3>2, <3>3, <3>4, <3>1 DEF Grows
      <3> QED
        BY <3>7, <3>8
    <2> QED
      BY <2>1, <2>11, <2>12 DEF WritesAlter, WritesEntry
  <1> QED
    BY <1>1, <1>2, <1>3 DEF TableEffect

LEMMA PointersFacts ==
    ASSUME IInv
    PROVE  /\ log_pointer \in Nat /\ listed \in Nat /\ log_pointer <= listed /\ listed <= Len(log)
           /\ mutation_pointer \in Nat /\ mutation_pointer <= Len(mutation_log)
           /\ zk_mutation_pointer \in Nat /\ zk_mutation_pointer <= Len(mutation_log)
           /\ mutation_pointer <= zk_mutation_pointer
           /\ queue \subseteq 1..log_pointer /\ 1..log_pointer \subseteq 1..Len(log)
           /\ 1..listed \subseteq 1..Len(log)
           /\ Written /\ Pointers /\ Finalizing /\ Entries /\ Sequence /\ Awaited
  <1>1. Written /\ Pointers /\ Finalizing /\ Entries /\ Sequence /\ Awaited
    BY DEF IInv
  <1>2. /\ log_pointer \in Nat /\ listed \in Nat /\ log_pointer <= listed /\ listed <= Len(log)
        /\ mutation_pointer \in Nat /\ mutation_pointer <= Len(mutation_log)
        /\ zk_mutation_pointer \in Nat /\ zk_mutation_pointer <= Len(mutation_log)
        /\ mutation_pointer <= zk_mutation_pointer
        /\ Len(log) \in Nat
    BY <1>1, LogFacts DEF Pointers
  <1>3. queue \subseteq 1..log_pointer
    BY <1>1 DEF Entries
  <1> QED
    BY <1>1, <1>2, <1>3

LEMMA TableKeeps ==
    ASSUME IInv, TableStep
    PROVE  IInv'
  <1>1. Written' /\ Grows
    BY TableStepWrites, Growth DEF IInv
  <1>2. UNCHANGED <<zk, parts, pull, ram, running, faults>>
    BY DEF TableStep
  <1>3. UNCHANGED <<znodes, log_pointer, zk_mutation_pointer, listed, fresh, finalizing, queue,
                    mutations, mutation_pointer, alter_sequence, running>>
    BY <1>2 DEF zk, pull, ram
  <1>4. /\ Len(log) \in Nat /\ Len(mutation_log) \in Nat
        /\ \A m \in 1..Len(mutation_log)' : m \in 1..Len(mutation_log) \/ m > Len(mutation_log)
    BY <1>1, PointersFacts, LogFacts DEF Grows
  <1>5. /\ AltersOf(1..log_pointer)' = AltersOf(1..log_pointer)
        /\ AltersOf(1..listed)' = AltersOf(1..listed)
        /\ AltersOf(queue)' = AltersOf(queue)
        /\ AltersOf(queue \cap Executing)' = AltersOf(queue \cap Executing)
    <2>1. \A n \in 1..Len(log) : log'[n] = log[n]
      BY <1>1 DEF Grows
    <2>2. \A n \in 1..log_pointer : log'[n] = log[n]
      BY <2>1, PointersFacts
    <2>3. \A n \in 1..listed : log'[n] = log[n]
      BY <2>1, PointersFacts
    <2>4. \A n \in queue : log'[n] = log[n]
      BY <2>2, PointersFacts
    <2>5. Executing' = Executing
      BY <1>3 DEF Executing
    <2> QED
      BY <1>3, <2>2, <2>3, <2>4, <2>5 DEF AltersOf
  <1>6. \A m \in 1..Len(mutation_log') : m \notin 1..Len(mutation_log) =>
            /\ mutation_log'[m].alter \notin AltersOf(1..log_pointer)
            /\ mutation_log'[m].alter \notin AltersOf(1..listed)
    <2>1. AltersOf(1..log_pointer) \subseteq AltersOf(1..Len(log))
      BY PointersFacts DEF AltersOf
    <2>2. AltersOf(1..listed) \subseteq AltersOf(1..Len(log))
      BY PointersFacts DEF AltersOf
    <2> QED
      BY <1>1, <2>1, <2>2 DEF Grows
  <1>7. \A m \in 1..Len(mutation_log) : mutation_log'[m] = mutation_log[m]
    BY <1>1 DEF Grows
  <1>8. Pointers'
    <2>1. /\ zk_mutation_pointer' <= Len(mutation_log)'
          /\ listed' <= Len(log)'
          /\ 1..Len(mutation_log) \subseteq 1..Len(mutation_log)'
          /\ 1..zk_mutation_pointer \subseteq 1..Len(mutation_log)
      BY <1>1, <1>3, <1>4, PointersFacts, LogFacts DEF Grows
    <2>2. \A m \in 1..zk_mutation_pointer' :
              mutation_log'[m].alter \in AltersOf(1..log_pointer)' \cup {NoAlter}
      BY <1>3, <1>5, <1>7, <2>1, PointersFacts DEF Pointers
    <2>3. \A m \in 1..Len(mutation_log)' :
              mutation_log'[m].alter \in AltersOf(1..log_pointer)' => m \in DOMAIN mutations'
      BY <1>3, <1>5, <1>6, <1>7, PointersFacts DEF Pointers
    <2>4. fresh' => \A m \in 1..Len(mutation_log)' :
              mutation_log'[m].alter \in AltersOf(1..listed)' => m \in DOMAIN mutations'
      BY <1>3, <1>5, <1>6, <1>7, PointersFacts DEF Pointers
    <2> QED
      BY <1>3, <2>1, <2>2, <2>3, <2>4, PointersFacts DEF Pointers
  <1>9. Entries'
    BY <1>3, PointersFacts DEF Entries, Executing
  <1>10. Sequence'
    BY <1>3, <1>5, PointersFacts DEF Sequence
  <1>11. Awaited'
    <2>1. \A m \in DOMAIN mutations : mutation_log'[m] = mutation_log[m]
      BY <1>7, PointersFacts DEF Pointers
    <2> QED
      BY <1>3, <2>1, PointersFacts DEF Awaited
  <1>12. Finalizing'
    <2> DEFINE C == finalizing.candidates
               u == finalizing.upto
    <2>1. \A c \in C : c \in 1..Len(mutation_log)' /\ 1..c \subseteq 1..Len(mutation_log)
      BY <1>1, <1>4, PointersFacts DEF Finalizing, Grows
    <2>2. ASSUME finalizing.stage = "pulling"
          PROVE  /\ u \in Nat /\ u <= Len(log)'
                 /\ \A c \in C : \A m \in 1..c :
                       mutation_log'[m].alter \in AltersOf(1..u)' \cup {NoAlter}
      <3>1. u \in Nat /\ u <= Len(log) /\ 1..u \subseteq 1..Len(log) /\ u <= Len(log)'
        BY <1>1, <1>4, <2>2, PointersFacts DEF Finalizing, Grows
      <3>2. \A n \in 1..u : log'[n] = log[n]
        BY <1>1, <3>1 DEF Grows
      <3>3. AltersOf(1..u)' = AltersOf(1..u)
        BY <1>3, <3>2 DEF AltersOf
      <3>4. \A c \in C : \A m \in 1..c : mutation_log[m].alter \in AltersOf(1..u) \cup {NoAlter}
        BY <2>2, PointersFacts DEF Finalizing
      <3> QED
        BY <1>7, <2>1, <3>1, <3>3, <3>4
    <2> QED
      BY <1>3, <2>1, <2>2, PointersFacts DEF Finalizing
  <1> QED
    BY <1>1, <1>8, <1>9, <1>10, <1>11, <1>12 DEF IInv

(***************************************************************************)
(* The steps that read the log                                             *)
(***************************************************************************)
LEMMA ListKeeps ==
    ASSUME IInv, listLog
    PROVE  IInv'
  <1>1. /\ UNCHANGED <<log, mutation_log, znodes, log_pointer, zk_mutation_pointer, finalizing,
                       queue, mutations, mutation_pointer, alter_sequence, running>>
        /\ listed < Len(log) /\ listed' = Len(log) /\ fresh' = FALSE
    BY DEF listLog, table, zk, ram
  <1>2. Written'
    BY <1>1, PointersFacts DEF Written, AltersOf, IsMeta
  <1>3. Pointers'
    BY <1>1, PointersFacts, LogFacts DEF Pointers, AltersOf
  <1>4. Entries'
    BY <1>1, PointersFacts DEF Entries, Executing
  <1>5. Sequence'
    BY <1>1, PointersFacts DEF Sequence, AltersOf, Executing
  <1>6. Awaited'
    BY <1>1, PointersFacts DEF Awaited
  <1>7. Finalizing'
    BY <1>1, PointersFacts DEF Finalizing, AltersOf
  <1> QED
    BY <1>2, <1>3, <1>4, <1>5, <1>6, <1>7 DEF IInv

LEMMA UpdateKeeps ==
    ASSUME IInv, updateMutations
    PROVE  IInv'
  <1> DEFINE new == DOMAIN mutation_log \ DOMAIN mutations
             ms == {m \in new : m > mutation_pointer}
             P == AltersOf(1..log_pointer)
  <1>1. /\ UNCHANGED <<log, mutation_log, znodes, log_pointer, zk_mutation_pointer, listed,
                       finalizing, queue, mutation_pointer, running>>
        /\ alter_sequence' = AddAlters(alter_sequence, ms)
        /\ DOMAIN mutations' = DOMAIN mutation_log /\ fresh' = TRUE
    BY DEF updateMutations, table, zk, LoadMutations
  <1>2. DOMAIN mutation_log = 1..Len(mutation_log) /\ Len(mutation_log) \in Nat
    BY PointersFacts, LogFacts
  <1>3. Written'
    BY <1>1, PointersFacts DEF Written, AltersOf, IsMeta
  <1>4. Pointers'
    BY <1>1, <1>2, PointersFacts DEF Pointers, AltersOf
  <1>5. Entries'
    BY <1>1, PointersFacts DEF Entries, Executing
  <1>6. NewAlters(ms) \subseteq AltersOf(1..Len(log)) \ P
    <2> SUFFICES ASSUME NEW m \in ms, mutation_log[m].alter # NoAlter
                 PROVE  mutation_log[m].alter \in AltersOf(1..Len(log)) \ P
      BY DEF NewAlters
    <2>1. m \in 1..Len(mutation_log) /\ m \notin DOMAIN mutations
      BY <1>2
    <2> QED
      BY <2>1, PointersFacts DEF Written, Pointers
  <1>7. NewAlters(ms) \subseteq Nat
    BY <1>6, PointersFacts, LogFacts
  <1>8. \A x \in P, w \in NewAlters(ms) : x < w
    BY <1>6, PointersFacts, Later
  <1>9. /\ InOrder(alter_sequence', P, AltersOf(queue), AltersOf(queue \cap Executing))
        /\ \A h \in DOMAIN alter_sequence : ~alter_sequence[h].data_finished =>
              h \in DOMAIN alter_sequence' /\ ~alter_sequence'[h].data_finished
        /\ \A w \in NewAlters(ms) : w \in DOMAIN alter_sequence' /\ ~alter_sequence'[w].data_finished
    <2>1. InOrder(alter_sequence, P, AltersOf(queue), AltersOf(queue \cap Executing))
      BY PointersFacts DEF Sequence
    <2> HIDE DEF P, ms
    <2> QED
      BY <1>1, <1>7, <1>8, <2>1, AddMutations
  <1>10. Sequence'
    BY <1>1, <1>9 DEF Sequence, AltersOf, Executing
  <1>11. Awaited'
    <2> SUFFICES ASSUME NEW m \in DOMAIN mutation_log, m > mutation_pointer,
                        mutation_log[m].alter # NoAlter
                 PROVE  /\ mutation_log[m].alter \in DOMAIN alter_sequence'
                        /\ ~alter_sequence'[mutation_log[m].alter].data_finished
      BY <1>1 DEF Awaited
    <2>1. CASE m \in DOMAIN mutations
      BY <1>9, <2>1, PointersFacts DEF Awaited
    <2>2. CASE m \notin DOMAIN mutations
      <3>1. mutation_log[m].alter \in NewAlters(ms)
        BY <2>2 DEF NewAlters
      <3> QED
        BY <1>9, <3>1
    <2> QED
      BY <2>1, <2>2
  <1>12. Finalizing'
    BY <1>1, PointersFacts DEF Finalizing, AltersOf
  <1> QED
    BY <1>3, <1>4, <1>5, <1>10, <1>11, <1>12 DEF IInv

LEMMA PullKeeps ==
    ASSUME IInv, pullLogsToQueue
    PROVE  IInv'
  <1> DEFINE n == log_pointer + 1
             v == log[n].alter
             P == AltersOf(1..log_pointer)
             Q == AltersOf(queue)
             R == AltersOf(queue \cap Executing)
  <1>1. /\ UNCHANGED <<log, mutation_log, zk_mutation_pointer, listed, fresh, finalizing,
                       mutation_pointer, running>>
        /\ fresh /\ n <= listed /\ znodes' = znodes \cup {n} /\ log_pointer' = n
        /\ queue' = queue \cup {n}
        /\ mutations' = InsertMutations(mutations, n)
        /\ alter_sequence' = InsertAlter(alter_sequence, n)
    BY DEF pullLogsToQueue, table, pull
  <1>2. DOMAIN mutations' = DOMAIN mutations
    BY <1>1 DEF InsertMutations, removeCoveredPartsFromMutations, addPartsToMutations
  <1>3. /\ n \in 1..Len(log) /\ n \notin 1..log_pointer /\ n \in 1..listed
        /\ 1..n = 1..log_pointer \cup {n}
    BY <1>1, PointersFacts, LogFacts
  <1>4. n \notin Executing /\ n \notin queue /\ n \notin znodes
    BY <1>3, PointersFacts DEF Entries
  <1>5. Written'
    BY <1>1, PointersFacts DEF Written, AltersOf, IsMeta
  <1>6. Pointers'
    <2>1. AltersOf(1..n) \subseteq AltersOf(1..listed) /\ P \subseteq AltersOf(1..n)
      BY <1>1, <1>3, PointersFacts DEF AltersOf
    <2>2. AltersOf(1..log_pointer)' = AltersOf(1..n) /\ AltersOf(1..listed)' = AltersOf(1..listed)
      BY <1>1 DEF AltersOf
    <2>3. \A m \in 1..zk_mutation_pointer' :
              mutation_log'[m].alter \in AltersOf(1..log_pointer)' \cup {NoAlter}
      BY <1>1, <2>1, <2>2, PointersFacts DEF Pointers
    <2>4. \A m \in 1..Len(mutation_log)' :
              mutation_log'[m].alter \in AltersOf(1..log_pointer)' => m \in DOMAIN mutations'
      BY <1>1, <1>2, <2>1, <2>2, PointersFacts DEF Pointers
    <2>5. fresh' => \A m \in 1..Len(mutation_log)' :
              mutation_log'[m].alter \in AltersOf(1..listed)' => m \in DOMAIN mutations'
      BY <1>1, <1>2, <2>2, PointersFacts DEF Pointers
    <2> QED
      BY <1>1, <1>2, <1>3, <2>3, <2>4, <2>5, PointersFacts DEF Pointers
  <1>7. Entries'
    <2>1. Executing' = Executing
      BY <1>1 DEF Executing
    <2>2. queue' \subseteq znodes' /\ znodes' \subseteq 1..log_pointer' /\ Executing' \subseteq 1..log_pointer'
      BY <1>1, <1>3, <2>1, PointersFacts DEF Entries
    <2>3. \A k \in Executing : k \in queue' <=> k \in queue
      BY <1>1, <1>4
    <2>4. znodes' \ queue' = znodes \ queue
      BY <1>1, <1>4
    <2> QED
      BY <1>1, <2>1, <2>2, <2>3, <2>4, PointersFacts DEF Entries
  <1>12. Finalizing'
    BY <1>1, PointersFacts DEF Finalizing, AltersOf
  <1>8. queue' \cap Executing' = queue \cap Executing
    BY <1>1, <1>4 DEF Executing
  <1>9. InOrder(alter_sequence, P, Q, R)
    BY PointersFacts DEF Sequence
  <1>10. CASE IsMeta(n)
    <2>1. v \in Nat /\ \A x \in P : x < v
      <3>1. v \in AltersOf(1..Len(log)) /\ v \notin P
        BY <1>3, <1>10, PointersFacts, LogFacts, OneEntry
      <3>2. v \in Nat
        BY <3>1, PointersFacts, LogFacts
      <3> QED
        BY <3>1, <3>2, PointersFacts, Later
    <2>2. alter_sequence' = addMetadataAlter(alter_sequence, v)
      BY <1>1, <1>10 DEF InsertAlter, IsMeta
    <2>3. AltersOf(1..log_pointer)' = P \cup {v} /\ AltersOf(queue)' = Q \cup {v}
      BY <1>1, <1>3, <1>10 DEF AltersOf, IsMeta
    <2>4. AltersOf(queue \cap Executing)' = R
      BY <1>1, <1>8 DEF AltersOf
    <2> HIDE DEF P, Q, R, v
    <2>5. /\ InOrder(alter_sequence', P \cup {v}, Q \cup {v}, R)
          /\ \A h \in DOMAIN alter_sequence :
                h \in DOMAIN alter_sequence'
                /\ alter_sequence'[h].data_finished = alter_sequence[h].data_finished
      BY <1>9, <2>1, <2>2, AddMetadata
    <2>6. Sequence'
      BY <2>3, <2>4, <2>5 DEF Sequence
    <2>7. Awaited'
      BY <1>1, <1>2, <2>5, PointersFacts DEF Awaited
    <2> QED
      BY <1>5, <1>6, <1>7, <1>12, <2>6, <2>7 DEF IInv
  <1>11. CASE ~IsMeta(n)
    <2>1. alter_sequence' = alter_sequence
      BY <1>1, <1>11 DEF InsertAlter, IsMeta
    <2>2. AltersOf(1..log_pointer)' = P /\ AltersOf(queue)' = Q
      BY <1>1, <1>3, <1>11 DEF AltersOf, IsMeta
    <2>3. AltersOf(queue \cap Executing)' = R
      BY <1>1, <1>8 DEF AltersOf
    <2>4. Sequence'
      BY <1>9, <2>1, <2>2, <2>3 DEF Sequence
    <2>5. Awaited'
      BY <1>1, <1>2, <2>1, PointersFacts DEF Awaited
    <2> QED
      BY <1>5, <1>6, <1>7, <1>12, <2>4, <2>5 DEF IInv
  <1> QED
    BY <1>10, <1>11

(***************************************************************************)
(* The steps of the threads that execute entries                           *)
(***************************************************************************)

(* All that concerns the log and the mutations is as it was.               *)
Undisturbed ==
    /\ UNCHANGED <<log, mutation_log, log_pointer, zk_mutation_pointer, listed, fresh, finalizing,
                   mutation_pointer>>
    /\ DOMAIN mutations' = DOMAIN mutations

LEMMA UndisturbedKeeps ==
    ASSUME IInv, Undisturbed
    PROVE  /\ Written' /\ Pointers' /\ Finalizing'
           /\ \A E : AltersOf(E)' = AltersOf(E)
  BY PointersFacts DEF Undisturbed, Written, Pointers, Finalizing, AltersOf, IsMeta

LEMMA SelectKeeps ==
    ASSUME IInv, NEW n \in queue, selectEntryToProcess(n)
    PROVE  IInv'
  <1> DEFINE v == log[n].alter
             s == alter_sequence
  <1>1. /\ UNCHANGED <<znodes, queue, mutations, alter_sequence>> /\ Undisturbed
        /\ n \notin Executing /\ shouldExecuteLogEntry(n)
        /\ running' = With(running, n, [actual |-> {}, waits |-> {}, stage |-> "selected",
                                        removed_by_other |-> FALSE])
    BY DEF selectEntryToProcess, table, zk, pull, ram, Undisturbed
  <1>2. Written' /\ Pointers' /\ Finalizing'
    BY <1>1, UndisturbedKeeps
  <1>3. /\ Executing' = Executing \cup {n}
        /\ \A k \in Executing : running'[k] = running[k]
        /\ running'[n] = [actual |-> {}, waits |-> {}, stage |-> "selected", removed_by_other |-> FALSE]
    BY <1>1 DEF Executing, With
  <1>4. Entries'
    <2>1. \A k \in Executing' : {"stage", "removed_by_other"} \subseteq DOMAIN running'[k]
      BY <1>3, PointersFacts DEF Entries
    <2>2. running'[n].stage = "selected" /\ running'[n].removed_by_other = FALSE
      BY <1>3
    <2>3. n \in 1..log_pointer
      BY PointersFacts
    <2> QED
      BY <1>1, <1>3, <2>1, <2>2, <2>3, PointersFacts DEF Entries, Undisturbed
  <1>5. InOrder(s, AltersOf(1..log_pointer), AltersOf(queue), AltersOf(queue \cap Executing))
    BY PointersFacts DEF Sequence
  <1>6. AltersOf(queue' \cap Executing') =
            AltersOf(queue \cap Executing) \cup (IF IsMeta(n) THEN {v} ELSE {})
    BY <1>1, <1>3 DEF AltersOf, IsMeta
  <1>7. IsMeta(n) => v \in AltersOf(queue) /\ \A h \in DOMAIN s : v <= h
    <2> SUFFICES ASSUME IsMeta(n) PROVE v \in AltersOf(queue) /\ \A h \in DOMAIN s : v <= h
      OBVIOUS
    <2>1. v \in AltersOf(queue)
      BY DEF AltersOf, IsMeta
    <2>2. v \in DOMAIN s /\ DOMAIN s \subseteq Nat
      BY <1>5, <2>1, SeqsFacts DEF InOrder
    <2>3. \E x \in DOMAIN s : \A h \in DOMAIN s : x <= h
      BY <2>2, LeastExists
    <2>4. \A h \in DOMAIN s : Min(DOMAIN s) <= h
      BY <2>3, Zenon DEF Min
    <2>5. Min(DOMAIN s) = v
      BY <1>1 DEF shouldExecuteLogEntry, canExecuteMetaAlter, getHeadAlterVersion, IsMeta
    <2> QED
      BY <2>1, <2>4, <2>5
  <1>8. InOrder(s, AltersOf(1..log_pointer), AltersOf(queue), AltersOf(queue' \cap Executing'))
    BY <1>5, <1>6, <1>7 DEF InOrder
  <1>9. Sequence'
    BY <1>1, <1>8 DEF Sequence, Undisturbed, AltersOf
  <1>10. Awaited'
    BY <1>1, PointersFacts DEF Awaited, Undisturbed
  <1> QED
    BY <1>2, <1>4, <1>9, <1>10 DEF IInv

(* A step of one execution that leaves the queue alone.                    *)
LEMMA ExecutionKeeps ==
    ASSUME IInv, Undisturbed, UNCHANGED <<znodes, queue, mutations, alter_sequence>>,
           Executing' \subseteq Executing,
           \A k \in Executing' : /\ {"stage", "removed_by_other"} \subseteq DOMAIN running'[k]
                                 /\ running'[k].removed_by_other = running[k].removed_by_other
                                 /\ running'[k].stage = "removed" <=> running[k].stage = "removed",
           \A k \in Executing \ Executing' : running[k].stage # "removed"
    PROVE  IInv'
  <1>1. Written' /\ Pointers' /\ Finalizing'
    BY UndisturbedKeeps
  <1>2. Entries'
    BY PointersFacts DEF Entries, Undisturbed
  <1>3. AltersOf(queue' \cap Executing') \subseteq AltersOf(queue \cap Executing)
    BY DEF AltersOf
  <1>4. InOrder(alter_sequence, AltersOf(1..log_pointer), AltersOf(queue),
                AltersOf(queue' \cap Executing'))
    BY <1>3, PointersFacts DEF Sequence, InOrder
  <1>5. Sequence'
    BY <1>4 DEF Sequence, Undisturbed, AltersOf
  <1>6. Awaited'
    BY PointersFacts DEF Awaited, Undisturbed
  <1> QED
    BY <1>1, <1>2, <1>5, <1>6 DEF IInv

LEMMA ExecuteKeeps ==
    ASSUME IInv, NEW n \in Executing,
           \/ \E t \in RemoteParts : addFuturePartIfNotCoveredByThem(n, t)
           \/ executeLogEntry(n) \/ executeMetadataAlter(n)
           \/ executeDropRange(n) \/ executeReplaceRange(n)
    PROVE  IInv'
  <1>1. /\ UNCHANGED <<znodes, queue, mutations, alter_sequence>> /\ Undisturbed
        /\ running[n].stage \in {"selected", "removing"}
        /\ \/ running' = [running EXCEPT ![n].stage = "done"]
           \/ \E a, w : running' = [running EXCEPT ![n].actual = a, ![n].waits = w]
    BY Zenon DEF addFuturePartIfNotCoveredByThem, executeLogEntry, executeMetadataAlter,
        executeDropRange, executeReplaceRange, Ready, table, zk, pull, ram, Undisturbed
  <1>2. \A k \in Executing : {"stage", "removed_by_other"} \subseteq DOMAIN running[k]
    BY PointersFacts DEF Entries
  <1>3. /\ Executing' = Executing
        /\ \A k \in Executing : k # n => running'[k] = running[k]
        /\ \/ running'[n] = [running[n] EXCEPT !.stage = "done"]
           \/ \E a, w : running'[n] = [[running[n] EXCEPT !.actual = a] EXCEPT !.waits = w]
    BY <1>1 DEF Executing
  <1>4. /\ {"stage", "removed_by_other"} \subseteq DOMAIN running'[n]
        /\ running'[n].removed_by_other = running[n].removed_by_other
        /\ running'[n].stage # "removed"
    BY <1>1, <1>2, <1>3
  <1>5. \A k \in Executing' : /\ {"stage", "removed_by_other"} \subseteq DOMAIN running'[k]
                              /\ running'[k].removed_by_other = running[k].removed_by_other
                              /\ running'[k].stage = "removed" <=> running[k].stage = "removed"
    BY <1>1, <1>2, <1>3, <1>4
  <1> QED
    BY <1>1, <1>3, <1>5, ExecutionKeeps

LEMMA ThrowKeeps ==
    ASSUME IInv, NEW n \in Executing, executionThrows(n)
    PROVE  IInv'
  <1>1. /\ UNCHANGED <<znodes, queue, mutations, alter_sequence>> /\ Undisturbed
        /\ running[n].stage \in {"selected", "removing"}
        /\ running' = Without(running, n)
    BY DEF executionThrows, Ready, table, zk, pull, ram, Undisturbed
  <1>2. \A k \in Executing : {"stage", "removed_by_other"} \subseteq DOMAIN running[k]
    BY PointersFacts DEF Entries
  <1>3. Executing' = Executing \ {n} /\ \A k \in Executing' : running'[k] = running[k]
    BY <1>1 DEF Executing, Without
  <1> QED
    BY <1>1, <1>2, <1>3, ExecutionKeeps

(* An ALTER is not among the entries that a drop range cancels.            *)
LEMMA RemoveOpsKeeps ==
    ASSUME IInv, NEW n \in Executing, removePartProducingOpsInRange(n)
    PROVE  IInv'
  <1> DEFINE gone == UNION {ProducingOpsInRange(n, r) : r \in getDropRange(n)}
  <1>1. /\ queue' = queue \ gone /\ znodes' = znodes \ gone
        /\ alter_sequence' = alter_sequence
        /\ running[n].stage = "selected"
        /\ running' = [k \in Executing |->
              IF k = n THEN [running[k] EXCEPT !.stage = "removing", !.waits = gone \cap Executing]
              ELSE [running[k] EXCEPT !.removed_by_other = @ \/ k \in gone]]
        /\ mutations' = RemoveUnsuccessful(mutations, gone)
    BY DEF removePartProducingOpsInRange, Ready
  <1>2. Undisturbed
    BY DEF removePartProducingOpsInRange, table, pull, Undisturbed, RemoveUnsuccessful
  <1>3. Written' /\ Pointers' /\ Finalizing'
    BY <1>2, UndisturbedKeeps
  <1>4. n \notin gone /\ gone \subseteq queue
    <2>1. ASSUME NEW r \in getDropRange(n), n \in ProducingOpsInRange(n, r) PROVE FALSE
      <3>1. log[n].type \in Simple
        BY <2>1 DEF ProducingOpsInRange, checkReplaceRangeCanBeRemoved
      <3>2. n \in 1..Len(log)
        BY PointersFacts DEF Entries
      <3>3. log[n].range = {}
        BY <3>1, <3>2, PointersFacts DEF Written
      <3> QED
        BY <3>1, <3>3 DEF getDropRange, DropRangeOf, Simple
    <2>2. gone \subseteq queue
      BY DEF ProducingOpsInRange
    <2> QED
      BY <2>1, <2>2
  <1>5. \A k \in gone : ~IsMeta(k)
    BY DEF ProducingOpsInRange, IsMeta, Simple
  <1>6. \A k \in Executing : {"stage", "removed_by_other"} \subseteq DOMAIN running[k]
    BY PointersFacts DEF Entries
  <1> HIDE DEF gone
  <1>7. /\ Executing' = Executing
        /\ running'[n] = [running[n] EXCEPT !.stage = "removing", !.waits = gone \cap Executing]
        /\ \A k \in Executing : k # n =>
               running'[k] = [running[k] EXCEPT !.removed_by_other = @ \/ k \in gone]
    BY <1>1 DEF Executing
  <1>8. /\ {"stage", "removed_by_other"} \subseteq DOMAIN running'[n]
        /\ running'[n].stage = "removing"
        /\ running'[n].removed_by_other = running[n].removed_by_other
    BY <1>6, <1>7
  <1>9. ASSUME NEW k \in Executing, k # n
        PROVE  /\ {"stage", "removed_by_other"} \subseteq DOMAIN running'[k]
               /\ running'[k].stage = running[k].stage
               /\ running'[k].removed_by_other = (running[k].removed_by_other \/ k \in gone)
    BY <1>6, <1>7, <1>9
  <1>10. Entries'
    <2>1. /\ queue' \subseteq znodes' /\ znodes' \subseteq 1..log_pointer'
          /\ Executing' \subseteq 1..log_pointer'
      BY <1>1, <1>2, <1>7, PointersFacts DEF Entries, Undisturbed
    <2>2. \A k \in Executing' : {"stage", "removed_by_other"} \subseteq DOMAIN running'[k]
      BY <1>7, <1>8, <1>9
    <2>3. ASSUME NEW k \in znodes' \ queue' PROVE k \in Executing' /\ running'[k].stage = "removed"
      <3>1. k \in znodes \ queue
        BY <1>1
      <3>2. k \in Executing /\ running[k].stage = "removed" /\ k # n
        BY <1>1, <3>1, PointersFacts DEF Entries
      <3> QED
        BY <1>7, <1>9, <3>2
    <2>4. ASSUME NEW k \in Executing'
          PROVE  k \in queue' <=> running'[k].stage # "removed" /\ running'[k].removed_by_other # TRUE
      <3>1. k \in queue <=> running[k].stage # "removed" /\ running[k].removed_by_other # TRUE
        BY <1>7, PointersFacts DEF Entries
      <3>2. CASE k = n
        BY <1>1, <1>4, <1>8, <3>1, <3>2
      <3>3. CASE k # n
        <4>1. running'[k].removed_by_other # TRUE <=> running[k].removed_by_other # TRUE /\ k \notin gone
          BY <1>7, <1>9, <3>3
        <4> QED
          BY <1>1, <1>7, <1>9, <3>1, <3>3, <4>1
      <3> QED
        BY <3>2, <3>3
    <2> QED
      BY <2>1, <2>2, <2>3, <2>4 DEF Entries
  <1>11. /\ AltersOf(queue)' = AltersOf(queue)
         /\ AltersOf(queue \cap Executing)' = AltersOf(queue \cap Executing)
    <2>1. \A E : AltersOf(E \ gone) = AltersOf(E)
      <3> SUFFICES ASSUME NEW E PROVE AltersOf(E \ gone) = AltersOf(E)
        OBVIOUS
      <3>1. {k \in E \ gone : log[k].type = "ALTER_METADATA"} =
                {k \in E : log[k].type = "ALTER_METADATA"}
        BY <1>5 DEF IsMeta
      <3> QED
        BY <3>1 DEF AltersOf
    <2>2. queue' \cap Executing' = (queue \cap Executing) \ gone
      BY <1>1, <1>7
    <2>3. AltersOf(queue)' = AltersOf(queue') /\ AltersOf(queue \cap Executing)' = AltersOf(queue' \cap Executing')
      BY <1>2 DEF AltersOf, Undisturbed
    <2> QED
      BY <1>1, <2>1, <2>2, <2>3
  <1>12. Sequence'
    BY <1>1, <1>2, <1>11, PointersFacts DEF Sequence, Undisturbed, AltersOf
  <1>13. Awaited'
    BY <1>1, <1>2, PointersFacts DEF Awaited, Undisturbed
  <1> QED
    BY <1>3, <1>10, <1>12, <1>13 DEF IInv

LEMMA ProcessedKeeps ==
    ASSUME IInv, NEW n \in Executing, removeProcessedEntry(n)
    PROVE  IInv'
  <1> DEFINE v == log[n].alter
             s == alter_sequence
             P == AltersOf(1..log_pointer)
             Q == AltersOf(queue)
             R == AltersOf(queue \cap Executing)
  <1>1. /\ running[n].stage = "done" /\ ~running[n].removed_by_other
        /\ queue' = queue \ {n} /\ UNCHANGED znodes
        /\ alter_sequence' = IF IsMeta(n) THEN finishMetadataAlter(s, v) ELSE s
        /\ running' = [running EXCEPT ![n].stage = "removed"]
        /\ mutations' = SuccessMutations(mutations, n)
    BY DEF removeProcessedEntry, zk, IsMeta
  <1>2. Undisturbed
    BY <1>1 DEF removeProcessedEntry, table, zk, pull, Undisturbed, SuccessMutations,
        removeCoveredPartsFromMutations
  <1>3. Written' /\ Pointers' /\ Finalizing'
    BY <1>2, UndisturbedKeeps
  <1>4. n \in queue
    BY <1>1, PointersFacts DEF Entries
  <1>5. \A k \in Executing : {"stage", "removed_by_other"} \subseteq DOMAIN running[k]
    BY PointersFacts DEF Entries
  <1>6. /\ Executing' = Executing
        /\ running'[n] = [running[n] EXCEPT !.stage = "removed"]
        /\ \A k \in Executing : k # n => running'[k] = running[k]
    BY <1>1 DEF Executing
  <1>7. Entries'
    <2>1. /\ {"stage", "removed_by_other"} \subseteq DOMAIN running'[n]
          /\ running'[n].stage = "removed"
      BY <1>5, <1>6
    <2>2. /\ queue' \subseteq znodes' /\ znodes' \subseteq 1..log_pointer'
          /\ Executing' \subseteq 1..log_pointer'
      BY <1>1, <1>2, <1>6, PointersFacts DEF Entries, Undisturbed
    <2>3. \A k \in Executing' : {"stage", "removed_by_other"} \subseteq DOMAIN running'[k]
      BY <1>5, <1>6, <2>1
    <2>4. ASSUME NEW k \in znodes' \ queue' PROVE k \in Executing' /\ running'[k].stage = "removed"
      <3>1. CASE k = n
        BY <1>6, <2>1, <3>1
      <3>2. CASE k # n
        <4>1. k \in znodes \ queue
          BY <1>1, <3>2
        <4>2. k \in Executing /\ running[k].stage = "removed"
          BY <4>1, PointersFacts DEF Entries
        <4> QED
          BY <1>6, <3>2, <4>2
      <3> QED
        BY <3>1, <3>2
    <2>5. ASSUME NEW k \in Executing'
          PROVE  k \in queue' <=> running'[k].stage # "removed" /\ running'[k].removed_by_other # TRUE
      <3>1. CASE k = n
        BY <1>1, <2>1, <3>1
      <3>2. CASE k # n
        <4>1. k \in queue <=> running[k].stage # "removed" /\ running[k].removed_by_other # TRUE
          BY <1>6, PointersFacts DEF Entries
        <4> QED
          BY <1>1, <1>6, <3>2, <4>1
      <3> QED
        BY <3>1, <3>2
    <2> QED
      BY <2>2, <2>3, <2>4, <2>5 DEF Entries
  <1>8. InOrder(s, P, Q, R)
    BY PointersFacts DEF Sequence
  <1>9. AltersOf(1..log_pointer)' = P
    BY <1>2 DEF AltersOf, Undisturbed
  <1>10. CASE IsMeta(n)
    <2>1. v \in R
      BY <1>4, <1>10 DEF AltersOf, IsMeta
    <2>2. ASSUME NEW E \in SUBSET queue PROVE AltersOf(E \ {n}) = AltersOf(E) \ {v}
      <3>1. n \in 1..Len(log) /\ E \ {n} \in SUBSET (1..Len(log))
        BY <1>4, PointersFacts
      <3>2. v \notin AltersOf(E \ {n})
        BY <1>10, <3>1, OneEntry, PointersFacts
      <3> QED
        BY <3>2 DEF AltersOf
    <2>3. /\ AltersOf(queue)' = Q \ {v}
          /\ AltersOf(queue \cap Executing)' = R \ {v}
      <3>1. AltersOf(queue)' = AltersOf(queue')
        BY <1>2 DEF AltersOf, Undisturbed
      <3>2. AltersOf(queue \cap Executing)' = AltersOf(queue' \cap Executing')
        BY <1>2 DEF AltersOf, Undisturbed
      <3>3. queue' \cap Executing' = (queue \cap Executing) \ {n}
        BY <1>1, <1>6
      <3>4. queue \cap Executing \in SUBSET queue
        OBVIOUS
      <3> QED
        BY <1>1, <2>2, <3>1, <3>2, <3>3, <3>4
    <2>4. alter_sequence' = finishMetadataAlter(s, v)
      BY <1>1, <1>10
    <2> HIDE DEF P, Q, R, v, s
    <2>5. /\ InOrder(alter_sequence', P, Q \ {v}, R \ {v})
          /\ \A h \in DOMAIN s : ~s[h].data_finished =>
                h \in DOMAIN alter_sequence' /\ ~alter_sequence'[h].data_finished
      BY <1>8, <2>1, <2>4, FinishMetadata
    <2>6. Sequence'
      BY <1>9, <2>3, <2>5 DEF Sequence
    <2>7. Awaited'
      BY <1>2, <2>5, PointersFacts DEF Awaited, Undisturbed, s
    <2> QED
      BY <1>3, <1>7, <2>6, <2>7 DEF IInv
  <1>11. CASE ~IsMeta(n)
    <2>1. \A E : AltersOf(E \ {n}) = AltersOf(E)
      BY <1>11 DEF AltersOf, IsMeta
    <2>2. /\ AltersOf(queue)' = Q
          /\ AltersOf(queue \cap Executing)' = R
      <3>1. AltersOf(queue)' = AltersOf(queue')
        BY <1>2 DEF AltersOf, Undisturbed
      <3>2. AltersOf(queue \cap Executing)' = AltersOf(queue' \cap Executing')
        BY <1>2 DEF AltersOf, Undisturbed
      <3>3. queue' \cap Executing' = (queue \cap Executing) \ {n}
        BY <1>1, <1>6
      <3> QED
        BY <1>1, <2>1, <3>1, <3>2, <3>3
    <2>3. alter_sequence' = s
      BY <1>1, <1>11
    <2>4. Sequence'
      BY <1>8, <1>9, <2>2, <2>3 DEF Sequence
    <2>5. Awaited'
      BY <1>2, <2>3, PointersFacts DEF Awaited, Undisturbed
    <2> QED
      BY <1>3, <1>7, <2>4, <2>5 DEF IInv
  <1> QED
    BY <1>10, <1>11

LEMMA ExecutedKeeps ==
    ASSUME IInv, NEW n \in Executing, entryExecuted(n)
    PROVE  IInv'
  <1>1. /\ \/ running[n].stage = "removed"
           \/ running[n].stage = "done" /\ running[n].removed_by_other
        /\ UNCHANGED <<queue, mutations, alter_sequence>> /\ Undisturbed
        /\ znodes' = znodes \ {n} /\ running' = Without(running, n)
    BY DEF entryExecuted, table, zk, pull, ram, Undisturbed
  <1>2. Written' /\ Pointers' /\ Finalizing'
    BY <1>1, UndisturbedKeeps
  <1>3. n \notin queue
    BY <1>1, PointersFacts DEF Entries
  <1>4. Executing' = Executing \ {n} /\ \A k \in Executing' : running'[k] = running[k]
    BY <1>1 DEF Executing, Without
  <1>5. Entries'
    BY <1>1, <1>3, <1>4, PointersFacts DEF Entries, Undisturbed
  <1>6. queue' \cap Executing' = queue \cap Executing
    BY <1>1, <1>3, <1>4
  <1>7. Sequence'
    BY <1>1, <1>6, PointersFacts DEF Sequence, Undisturbed, AltersOf
  <1>8. Awaited'
    BY <1>1, PointersFacts DEF Awaited, Undisturbed
  <1> QED
    BY <1>2, <1>5, <1>7, <1>8 DEF IInv

(***************************************************************************)
(* The end of mutations, and restarts                                      *)
(***************************************************************************)
(* finishDataAlter for mutations the pointer has reached: what is awaited  *)
(* belongs to later ones.                                                  *)
LEMMA FinishedKeep ==
    ASSUME IInv, NEW ms, NEW p \in Nat, mutation_pointer <= p, p <= zk_mutation_pointer,
           \A m \in ms : m \in 1..p,
           UNCHANGED <<log, mutation_log, znodes, log_pointer, zk_mutation_pointer, listed, fresh,
                       queue, running>>,
           DOMAIN mutations' = DOMAIN mutations, mutation_pointer' = p,
           alter_sequence' = finishDataAlters(ms)
    PROVE  Written' /\ Pointers' /\ Entries' /\ Sequence' /\ Awaited'
  <1> DEFINE P == AltersOf(1..log_pointer)
             Q == AltersOf(queue)
             R == AltersOf(queue \cap Executing)
             s == alter_sequence
  <1>1. Len(mutation_log) \in Nat /\ DOMAIN mutations \subseteq 1..Len(mutation_log)
    BY PointersFacts, LogFacts DEF Pointers
  <1>2. /\ InOrder(alter_sequence', P, Q, R)
        /\ \A h \in DOMAIN s : h \notin NewAlters(ms) =>
              h \in DOMAIN alter_sequence' /\ alter_sequence'[h] = s[h]
    <2>1. InOrder(s, P, Q, R)
      BY PointersFacts DEF Sequence
    <2>2. 1..p \subseteq 1..zk_mutation_pointer
      BY PointersFacts
    <2>3. \A m \in ms : mutation_log[m].alter \in P \cup {NoAlter}
      BY <2>2, PointersFacts DEF Pointers
    <2> HIDE DEF P, Q, R
    <2> QED
      BY <1>1, <2>1, <2>3, FinishDataAlters
  <1>3. Written'
    BY PointersFacts DEF Written, AltersOf, IsMeta
  <1>4. Pointers'
    BY PointersFacts DEF Pointers, AltersOf
  <1>5. Entries'
    BY PointersFacts DEF Entries, Executing
  <1>6. Sequence'
    BY <1>2 DEF Sequence, AltersOf, Executing
  <1>7. Awaited'
    <2> SUFFICES ASSUME NEW m \in DOMAIN mutations, m > p, mutation_log[m].alter # NoAlter
                 PROVE  /\ mutation_log[m].alter \in DOMAIN alter_sequence'
                        /\ ~alter_sequence'[mutation_log[m].alter].data_finished
      BY DEF Awaited
    <2>1. m \in 1..Len(mutation_log) /\ m > mutation_pointer
      BY <1>1, PointersFacts
    <2>2. mutation_log[m].alter \in DOMAIN s /\ ~s[mutation_log[m].alter].data_finished
      BY <2>1, PointersFacts DEF Awaited
    <2>3. mutation_log[m].alter \notin NewAlters(ms)
      <3> SUFFICES ASSUME NEW k \in ms, mutation_log[k].alter = mutation_log[m].alter PROVE FALSE
        BY DEF NewAlters
      <3>1. k \in 1..p /\ k \in 1..Len(mutation_log)
        BY <1>1, PointersFacts
      <3>2. k = m
        BY <2>1, <3>1, PointersFacts DEF Written
      <3> QED
        BY <2>1, <3>1, <3>2
    <2> QED
      BY <1>2, <2>2, <2>3
  <1> QED
    BY <1>3, <1>4, <1>5, <1>6, <1>7

LEMMA GreatestMutation ==
    ASSUME NEW N \in Nat, NEW A \in SUBSET (0..N), A # {}
    PROVE  Max(A) \in A /\ Max(A) \in Nat /\ \A m \in A : Max(A) >= m
  <1>1. \E x \in A : \A y \in A : x >= y
    BY Greatest
  <1>2. Max(A) \in A /\ \A m \in A : Max(A) >= m
    BY <1>1, Zenon DEF Max
  <1> DEFINE x == Max(A)
  <1>3. x \in A /\ \A m \in A : x >= m
    BY <1>2
  <1> HIDE DEF x
  <1>4. x \in Nat
    BY <1>3
  <1> QED
    BY <1>3, <1>4 DEF x

LEMMA CollectKeeps ==
    ASSUME IInv, collectCandidates
    PROVE  IInv'
  <1>1. /\ UNCHANGED <<log, mutation_log, znodes, log_pointer, zk_mutation_pointer, listed, fresh,
                       queue, running, mutation_pointer>>
        /\ DOMAIN mutations' = DOMAIN mutations
        /\ alter_sequence' = finishDataAlters(Jumped)
        /\ finalizing' = IF Candidates = {} THEN Idle
                         ELSE [Idle EXCEPT !.stage = "collected", !.candidates = Candidates]
    BY DEF collectCandidates, table, zk
  <1>2. \A m \in Jumped : m \in 1..mutation_pointer
    BY PointersFacts DEF Jumped, Pointers
  <1>3. Written' /\ Pointers' /\ Entries' /\ Sequence' /\ Awaited'
    BY <1>1, <1>2, PointersFacts, FinishedKeep
  <1>4. \A c \in Candidates : c \in 1..Len(mutation_log) /\ c > mutation_pointer
    BY PointersFacts DEF Candidates, Pointers
  <1>5. /\ {"stage", "candidates", "upto"} \subseteq DOMAIN finalizing'
        /\ finalizing'.candidates \subseteq Candidates
        /\ finalizing'.stage \in {"idle", "collected"}
    BY <1>1 DEF Idle
  <1>6. Finalizing'
    BY <1>1, <1>4, <1>5 DEF Finalizing
  <1> QED
    BY <1>3, <1>6 DEF IInv

(* A step of the finalizer that leaves the memory alone.                   *)
LEMMA ReadKeeps ==
    ASSUME IInv, Finalizing', Pointers',
           UNCHANGED <<log, mutation_log, znodes, log_pointer, listed, fresh, queue, running,
                       mutations, mutation_pointer, alter_sequence>>
    PROVE  IInv'
  <1>1. Written'
    BY PointersFacts DEF Written, AltersOf, IsMeta
  <1>2. Entries' /\ Sequence' /\ Awaited'
    BY PointersFacts DEF Entries, Sequence, Awaited, AltersOf, Executing
  <1> QED
    BY <1>1, <1>2 DEF IInv

LEMMA ReadBlocksKeeps ==
    ASSUME IInv, readCommittingBlocks
    PROVE  IInv'
  <1>1. /\ UNCHANGED <<log, mutation_log, znodes, log_pointer, zk_mutation_pointer, listed, fresh,
                       queue, running, mutations, mutation_pointer, alter_sequence>>
        /\ finalizing' = [finalizing EXCEPT !.stage = "pulling", !.blocks = committing,
                                            !.upto = Len(log)]
    BY DEF readCommittingBlocks, table, zk, ram
  <1>2. /\ {"stage", "candidates", "upto"} \subseteq DOMAIN finalizing'
        /\ finalizing'.candidates = finalizing.candidates
        /\ finalizing'.stage = "pulling" /\ finalizing'.upto = Len(log)
    BY <1>1, PointersFacts DEF Finalizing
  <1>3. \A c \in finalizing.candidates : /\ c \in 1..Len(mutation_log) /\ c > mutation_pointer
                                         /\ 1..c \subseteq 1..Len(mutation_log)
    BY PointersFacts, LogFacts DEF Finalizing
  <1>4. \A m \in 1..Len(mutation_log) :
            mutation_log[m].alter \in AltersOf(1..Len(log)) \cup {NoAlter}
    BY PointersFacts DEF Written
  <1>5. Len(log) \in Nat
    BY PointersFacts, LogFacts
  <1>6. Finalizing'
    BY <1>1, <1>2, <1>3, <1>4, <1>5 DEF Finalizing, AltersOf
  <1>7. Pointers'
    BY <1>1, PointersFacts DEF Pointers, AltersOf
  <1> QED
    BY <1>1, <1>6, <1>7, ReadKeeps

LEMMA CheckKeeps ==
    ASSUME IInv, checkCandidates
    PROVE  IInv'
  <1> DEFINE finished == {m \in finalizing.candidates : isMutationFinished(m)}
             A == finished \cup {zk_mutation_pointer}
  <1>1. /\ UNCHANGED <<log, mutation_log, znodes, log_pointer, listed, fresh, queue, running,
                       mutations, mutation_pointer, alter_sequence>>
        /\ finalizing.stage = "pulling" /\ log_pointer >= finalizing.upto
        /\ zk_mutation_pointer' = Max(A)
        /\ finalizing' = IF finished = {} THEN Idle
                         ELSE [finalizing EXCEPT !.stage = "finished", !.candidates = finished]
    BY DEF checkCandidates, table, ram
  <1>2. finished \subseteq finalizing.candidates
    OBVIOUS
  <1> HIDE DEF finished
  <1>3. \A c \in finished : c \in 1..Len(mutation_log) /\ c > mutation_pointer
    BY <1>2, PointersFacts DEF Finalizing
  <1>4. Len(mutation_log) \in Nat /\ A \in SUBSET (0..Len(mutation_log)) /\ A # {}
    BY <1>3, PointersFacts, LogFacts
  <1>5. Max(A) \in A /\ Max(A) \in Nat /\ \A m \in A : Max(A) >= m
    BY <1>4, GreatestMutation
  <1>6. /\ Max(A) \in Nat /\ Max(A) >= zk_mutation_pointer /\ Max(A) <= Len(mutation_log)
        /\ \A c \in finished : c <= Max(A)
    <2> DEFINE x == Max(A)
    <2>1. x \in A /\ x \in Nat /\ \A m \in A : x >= m
      BY <1>5
    <2>2. zk_mutation_pointer \in A /\ finished \subseteq A
      OBVIOUS
    <2> HIDE DEF A, x
    <2>3. x <= Len(mutation_log)
      BY <1>4, <2>1
    <2>4. x >= zk_mutation_pointer
      BY <2>1, <2>2
    <2>5. \A c \in finished : c <= x
      BY <1>3, <2>1, <2>2
    <2> QED
      BY <2>1, <2>3, <2>4, <2>5 DEF x
  <1>7. \A m \in 1..Max(A) : mutation_log[m].alter \in AltersOf(1..log_pointer) \cup {NoAlter}
    <2>1. CASE Max(A) = zk_mutation_pointer
      BY <2>1, PointersFacts DEF Pointers
    <2>2. CASE Max(A) \in finished
      <3>1. finalizing.upto \in Nat /\ 1..finalizing.upto \subseteq 1..log_pointer
        BY <1>1, PointersFacts DEF Finalizing
      <3>2. \A m \in 1..Max(A) :
                mutation_log[m].alter \in AltersOf(1..finalizing.upto) \cup {NoAlter}
        BY <1>1, <1>2, <2>2, PointersFacts DEF Finalizing
      <3> QED
        BY <3>1, <3>2 DEF AltersOf
    <2> QED
      BY <1>5, <2>1, <2>2
  <1> HIDE DEF A
  <1>8. Pointers'
    BY <1>1, <1>6, <1>7, PointersFacts DEF Pointers, AltersOf
  <1>9. Finalizing'
    <2>1. CASE finished = {}
      BY <1>1, <2>1 DEF Finalizing, Idle
    <2>2. CASE finished # {}
      <3>1. finalizing' = [finalizing EXCEPT !.stage = "finished", !.candidates = finished]
        BY <1>1, <2>2
      <3>2. /\ {"stage", "candidates", "upto"} \subseteq DOMAIN finalizing'
            /\ finalizing'.candidates = finished /\ finalizing'.stage = "finished"
        BY <3>1, PointersFacts DEF Finalizing
      <3> QED
        BY <1>1, <1>3, <1>6, <2>2, <3>2 DEF Finalizing
    <2> QED
      BY <2>1, <2>2
  <1> QED
    BY <1>1, <1>8, <1>9, ReadKeeps

LEMMA FinishKeeps ==
    ASSUME IInv, finishMutations
    PROVE  IInv'
  <1> DEFINE C == finalizing.candidates
  <1>1. /\ UNCHANGED <<log, mutation_log, znodes, log_pointer, zk_mutation_pointer, listed, fresh,
                       queue, running>>
        /\ DOMAIN mutations' = DOMAIN mutations
        /\ finalizing.stage = "finished"
        /\ mutation_pointer' = Max(C)
        /\ alter_sequence' = finishDataAlters(C)
        /\ finalizing' = Idle
    BY DEF finishMutations, table, zk
  <1>2. /\ C # {}
        /\ \A c \in C : c \in 1..Len(mutation_log) /\ c > mutation_pointer /\ c <= zk_mutation_pointer
    BY <1>1, PointersFacts DEF Finalizing
  <1> HIDE DEF C
  <1>3. C \in SUBSET (0..Len(mutation_log)) /\ Len(mutation_log) \in Nat
    BY <1>2, PointersFacts, LogFacts
  <1>4. Max(C) \in C /\ Max(C) \in Nat /\ \A m \in C : Max(C) >= m
    BY <1>2, <1>3, GreatestMutation
  <1>5. /\ mutation_pointer <= Max(C) /\ Max(C) <= zk_mutation_pointer
        /\ \A m \in C : m \in 1..Max(C)
    BY <1>2, <1>4, PointersFacts
  <1>6. Written' /\ Pointers' /\ Entries' /\ Sequence' /\ Awaited'
    BY <1>1, <1>4, <1>5, FinishedKeep
  <1>7. Finalizing'
    BY <1>1 DEF Finalizing, Idle
  <1> QED
    BY <1>6, <1>7 DEF IInv

LEMMA FinalizeKeeps ==
    ASSUME IInv, tryFinalizeMutations
    PROVE  IInv'
  BY CollectKeeps, ReadBlocksKeeps, CheckKeeps, FinishKeeps DEF tryFinalizeMutations

LEMMA RestartKeeps ==
    ASSUME IInv, ~LateCrashes, restart
    PROVE  IInv'
  <1> DEFINE ms == {m \in DOMAIN mutation_log : m > zk_mutation_pointer}
             P == AltersOf(1..log_pointer)
             s == alter_sequence
  <1>1. /\ UNCHANGED <<log, mutation_log, znodes, log_pointer, zk_mutation_pointer>>
        /\ \A n \in znodes : ~PartlyDone(n)
        /\ running' = <<>> /\ queue' = znodes
        /\ DOMAIN mutations' = DOMAIN mutation_log
        /\ alter_sequence' = AddAlters(LoadAlters(znodes), ms)
        /\ mutation_pointer' = zk_mutation_pointer
        /\ listed' = log_pointer /\ fresh' = FALSE /\ finalizing' = Idle
    BY DEF restart, table, zk, LoadMutations
  <1>2. DOMAIN mutation_log = 1..Len(mutation_log) /\ Len(mutation_log) \in Nat
    BY PointersFacts, LogFacts
  <1>3. znodes = queue
    <2>1. znodes \ queue = {}
      BY <1>1, PointersFacts DEF Entries, PartlyDone
    <2> QED
      BY <2>1, PointersFacts DEF Entries
  <1>4. Finalizing'
    BY <1>1 DEF Finalizing, Idle
  <1>5. Written'
    BY <1>1, PointersFacts DEF Written, AltersOf, IsMeta
  <1>6. Pointers'
    BY <1>1, <1>2, PointersFacts DEF Pointers, AltersOf
  <1>7. Executing' = {}
    BY <1>1 DEF Executing
  <1>8. Entries'
    BY <1>1, <1>3, <1>7, PointersFacts DEF Entries
  <1>9. NewAlters(ms) \subseteq AltersOf(1..Len(log))
    BY <1>2, PointersFacts DEF NewAlters, Written
  <1>10. NewAlters(ms) \subseteq Nat
    BY <1>9, PointersFacts, LogFacts
  <1>11. \A w \in NewAlters(ms) \ P, x \in P : x < w
    BY <1>9, PointersFacts, Later
  <1>12. \A w \in NewAlters(ms) \cap P : w \in DOMAIN s /\ ~s[w].data_finished
    <2> SUFFICES ASSUME NEW m \in ms, mutation_log[m].alter # NoAlter, mutation_log[m].alter \in P
                 PROVE  /\ mutation_log[m].alter \in DOMAIN s
                        /\ ~s[mutation_log[m].alter].data_finished
      BY DEF NewAlters
    <2>1. m \in DOMAIN mutations /\ m > mutation_pointer
      BY <1>2, PointersFacts DEF Pointers
    <2> QED
      BY <2>1, PointersFacts DEF Awaited
  <1>13. /\ InOrder(alter_sequence', P, AltersOf(znodes), {})
         /\ \A w \in NewAlters(ms) : w \in DOMAIN alter_sequence' /\ ~alter_sequence'[w].data_finished
    <2>1. InOrder(s, P, AltersOf(znodes), AltersOf(queue \cap Executing))
      BY <1>3, PointersFacts DEF Sequence
    <2> HIDE DEF P, ms, s
    <2> QED
      BY <1>1, <1>10, <1>11, <1>12, <2>1, Reloaded
  <1>14. Sequence'
    <2>1. AltersOf(queue \cap Executing)' = {}
      BY <1>7 DEF AltersOf
    <2>2. AltersOf(1..log_pointer)' = P /\ AltersOf(queue)' = AltersOf(znodes)
      BY <1>1 DEF AltersOf
    <2> QED
      BY <1>13, <2>1, <2>2 DEF Sequence
  <1>15. Awaited'
    <2> SUFFICES ASSUME NEW m \in DOMAIN mutation_log, m > zk_mutation_pointer,
                        mutation_log[m].alter # NoAlter
                 PROVE  /\ mutation_log[m].alter \in DOMAIN alter_sequence'
                        /\ ~alter_sequence'[mutation_log[m].alter].data_finished
      BY <1>1 DEF Awaited
    <2>1. mutation_log[m].alter \in NewAlters(ms)
      BY DEF NewAlters
    <2> QED
      BY <1>13, <2>1
  <1> QED
    BY <1>4, <1>5, <1>6, <1>8, <1>14, <1>15 DEF IInv

(***************************************************************************)
(* The theorem                                                             *)
(***************************************************************************)
LEMMA InitHolds ==
    ASSUME Init
    PROVE  IInv
  <1>1. /\ log = <<>> /\ mutation_log = <<>> /\ znodes = {} /\ log_pointer = 0
        /\ zk_mutation_pointer = 0 /\ listed = 0 /\ queue = {} /\ running = <<>>
        /\ mutations = <<>> /\ mutation_pointer = 0 /\ alter_sequence = <<>> /\ finalizing = Idle
    BY DEF Init
  <1>2. Len(log) = 0 /\ Len(mutation_log) = 0 /\ Executing = {} /\ DOMAIN mutations = {}
    BY <1>1 DEF Executing
  <1>3. Written
    BY <1>1, <1>2 DEF Written
  <1>4. Pointers
    BY <1>1, <1>2 DEF Pointers
  <1>5. Entries
    BY <1>1, <1>2 DEF Entries
  <1>6. Sequence
    <2>1. DOMAIN alter_sequence = {} /\ alter_sequence = [v \in DOMAIN alter_sequence |-> alter_sequence[v]]
      BY <1>1
    <2>2. alter_sequence \in Seqs
      BY <2>1, IsSeqs
    <2>3. AltersOf(1..log_pointer) = {} /\ AltersOf(queue) = {} /\ AltersOf(queue \cap Executing) = {}
      BY <1>1 DEF AltersOf
    <2> QED
      BY <2>1, <2>2, <2>3 DEF Sequence, InOrder
  <1>7. Awaited
    BY <1>2 DEF Awaited
  <1>8. Finalizing
    BY <1>1 DEF Finalizing, Idle
  <1> QED
    BY <1>3, <1>4, <1>5, <1>6, <1>7, <1>8 DEF IInv

LEMMA NextKeeps ==
    ASSUME IInv, ~LateCrashes, [Next]_vars
    PROVE  IInv'
  <1>1. CASE TableStep
    BY <1>1, TableKeeps
  <1>2. CASE listLog
    BY <1>2, ListKeeps
  <1>3. CASE updateMutations
    BY <1>3, UpdateKeeps
  <1>4. CASE pullLogsToQueue
    BY <1>4, PullKeeps
  <1>5. CASE \E n \in queue : selectEntryToProcess(n)
    BY <1>5, SelectKeeps
  <1>6. ASSUME NEW n \in Executing, executeStep(n) PROVE IInv'
    <2>1. CASE removePartProducingOpsInRange(n)
      BY <2>1, RemoveOpsKeeps
    <2>2. CASE executionThrows(n)
      BY <2>2, ThrowKeeps
    <2>3. CASE removeProcessedEntry(n)
      BY <2>3, ProcessedKeeps
    <2>4. CASE entryExecuted(n)
      BY <2>4, ExecutedKeeps
    <2>5. CASE \/ \E t \in RemoteParts : addFuturePartIfNotCoveredByThem(n, t)
               \/ executeLogEntry(n) \/ executeMetadataAlter(n)
               \/ executeDropRange(n) \/ executeReplaceRange(n)
      BY <2>5, ExecuteKeeps
    <2> QED
      BY <1>6, <2>1, <2>2, <2>3, <2>4, <2>5, Zenon DEF executeStep
  <1>7. CASE tryFinalizeMutations
    BY <1>7, FinalizeKeeps
  <1>8. CASE restart
    BY <1>8, RestartKeeps
  <1>9. CASE UNCHANGED vars
    <2>1. UNCHANGED <<log, mutation_log, znodes, log_pointer, zk_mutation_pointer, listed, fresh,
                      finalizing, queue, running, mutations, mutation_pointer, alter_sequence>>
      BY <1>9 DEF vars, table, zk, pull, ram
    <2>2. Undisturbed
      BY <2>1 DEF Undisturbed
    <2>3. Written' /\ Pointers' /\ Finalizing'
      BY <2>2, UndisturbedKeeps
    <2>4. Entries' /\ Sequence' /\ Awaited'
      BY <2>1, PointersFacts DEF Entries, Sequence, Awaited, AltersOf, Executing
    <2> QED
      BY <2>3, <2>4 DEF IInv
  <1> QED
    BY <1>1, <1>2, <1>3, <1>4, <1>5, <1>6, <1>7, <1>8, <1>9, Zenon DEF Next

LEMMA IInvOrders ==
    ASSUME IInv
    PROVE  AltersInOrder
  <1> DEFINE s == alter_sequence
  <1>1. InOrder(s, AltersOf(1..log_pointer), AltersOf(queue), AltersOf(queue \cap Executing))
    BY PointersFacts DEF Sequence
  <1>2. DOMAIN s \subseteq Nat /\ \A v \in DOMAIN s : s[v] \in States
    BY <1>1, SeqsFacts DEF InOrder
  <1>3. ASSUME NEW v \in DOMAIN s, s[v].data_finished
        PROVE  \E n \in queue : log[n].type = "ALTER_METADATA" /\ log[n].alter = v
    <2>1. v \in AltersOf(queue)
      BY <1>1, <1>3 DEF InOrder
    <2> QED
      BY <2>1 DEF AltersOf
  <1>4. ASSUME NEW n \in queue, log[n].type = "ALTER_METADATA"
        PROVE  /\ log[n].alter \in DOMAIN s /\ ~s[log[n].alter].metadata_finished
               /\ n \in Executing => log[n].alter = getHeadAlterVersion(s)
    <2> DEFINE v == log[n].alter
    <2>1. v \in AltersOf(queue)
      BY <1>4 DEF AltersOf
    <2>2. v \in DOMAIN s /\ ~s[v].metadata_finished
      BY <1>1, <2>1 DEF InOrder
    <2>3. ASSUME n \in Executing PROVE v = getHeadAlterVersion(s)
      <3>1. v \in AltersOf(queue \cap Executing)
        BY <1>4, <2>3 DEF AltersOf
      <3>2. \A h \in DOMAIN s : v <= h
        BY <1>1, <3>1 DEF InOrder
      <3> HIDE DEF s, v
      <3>3. Min(DOMAIN s) \in DOMAIN s /\ \A h \in DOMAIN s : Min(DOMAIN s) <= h
        BY <2>2, <3>2, Zenon DEF Min
      <3>4. v <= Min(DOMAIN s) /\ Min(DOMAIN s) <= v
        BY <2>2, <3>2, <3>3
      <3> QED
        BY <1>2, <2>2, <3>3, <3>4 DEF getHeadAlterVersion
    <2> QED
      BY <2>2, <2>3
  <1>5. ASSUME NEW n \in queue, log[n].alter # NoAlter
        PROVE  log[n].alter \in DOMAIN s \/ \A h \in DOMAIN s : log[n].alter < h
    <2>1. n \in 1..log_pointer /\ n \in 1..Len(log)
      BY PointersFacts
    <2>2. log[n].alter \in AltersOf(1..n)
      BY <1>5, <2>1, PointersFacts DEF Written
    <2>3. 1..n \subseteq 1..log_pointer
      BY <2>1, PointersFacts
    <2>4. log[n].alter \in AltersOf(1..log_pointer)
      BY <2>2, <2>3 DEF AltersOf
    <2> QED
      BY <1>1, <2>4 DEF InOrder
  <1> QED
    BY <1>3, <1>4, <1>5 DEF AltersInOrder

(* An ALTER changes the metadata only after all before it are finished,    *)
(* and the data only after the metadata: for every log, whatever order the *)
(* threads take the entries in, and across restarts.  The only crash left  *)
(* out is one after the commit of a part and before the end of its entry.  *)
THEOREM AltersAreOrdered ==
    ASSUME ~LateCrashes
    PROVE  Spec => []AltersInOrder
  <1>1. Init => IInv
    BY InitHolds
  <1>2. IInv /\ [Next]_vars => IInv'
    BY NextKeeps
  <1>3. IInv => AltersInOrder
    BY IInvOrders
  <1> QED
    BY <1>1, <1>2, <1>3, PTL DEF Spec
=============================================================================
