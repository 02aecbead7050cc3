------------------------- MODULE ReadCaches_proofs --------------------------
(***************************************************************************)
(* ReadCaches: its invariant IInv is inductive, for any numbers of reads   *)
(* and writes, any time to live and any clock; it contains the bound on    *)
(* staleness and what the invalidation of the profile achieves.            *)
(***************************************************************************)
EXTENDS ReadCaches, TLAPS

USE ReadCachesAssumption

\* The initial states satisfy the invariant.
LEMMA InitInv == Init => IInv
<1> SUFFICES ASSUME Init PROVE IInv
  OBVIOUS
<1> USE DEF Init
<1>1. TypeOK
  BY DEF TypeOK, Read, Entry, Answer, AtRest, NoEntry, NoAnswer, Version, Kinds, Tables
<1>2. Ordered
  BY DEF Ordered
<1>3. EntriesBounded
  BY DEF EntriesBounded, NoEntry
<1>4. ReadsBounded /\ StoresOvertaken /\ LookupSawValid
  BY DEF ReadsBounded, StoresOvertaken, LookupSawValid, AtRest, Current, Tables
<1>5. AnswerKnown /\ StaleBounded /\ NoProfileForDisabled
  BY DEF AnswerKnown, StaleBounded, NoProfileForDisabled, NoAnswer, Current, Tables, TableOf
<1>6. ProfileFresh
  BY DEF ProfileFresh, NoEntry, Kinds
<1> QED BY <1>1, <1>2, <1>3, <1>4, <1>5, <1>6 DEF IInv

-----------------------------------------------------------------------------
(* The queries and gets, which change a read and the answer only.          *)

\* Request r goes on to state x and answers a, and both say of the rows what
\* IInv asks of them.
LEMMA QueryInv ==
    ASSUME IInv, NEW r \in Reads, UNCHANGED unchangedByQuery,
           NEW x \in Read, read' = [read EXCEPT ![r] = x],
           x.time <= now,
           x.at = "set" => /\ x.version = Current(TableOf(x.kind)) /\ x.time = now,
           x.kind = "profile" /\ x.at \in {"get", "find", "findUncached", "set"} =>
             /\ x.began \in 1..Current("usuario")
             /\ x.at # "findUncached"
                  => \E v \in x.began..Current("usuario") : rows["usuario"][v].valid,
           NEW a \in Answer, answer' = a,
           a.version # 0 =>
             /\ a.version \in 1..Current(TableOf(a.kind))
             /\ CurrentAfter(TableOf(a.kind), a.version, now - Ttl - slowest)
             /\ a.kind = "profile"
                  => \E v \in a.began..Current("usuario") : rows["usuario"][v].valid
    PROVE  IInv'
<1> USE DEF unchangedByQuery, history
<1>1. TypeOK'
  BY DEF IInv, TypeOK
<1>2. Ordered'
  BY DEF IInv, Ordered
<1>3. EntriesBounded'
  BY DEF IInv, EntriesBounded, CurrentAfter, Current
<1>4. \A t \in Tables : Current(t) \in Nat /\ Current(t) > 0
  BY DEF IInv, TypeOK, Ordered, Current
<1>5. x.kind \in Kinds /\ TableOf(x.kind) \in Tables
  BY DEF Read, Kinds, Tables, TableOf
<1>6. ReadsBounded'
  <2> SUFFICES ASSUME NEW q \in Reads
               PROVE  /\ read'[q].time <= now'
                      /\ read'[q].at = "set" =>
                           /\ read'[q].version \in 1..Current(TableOf(read'[q].kind))
                           /\ CurrentAfter(TableOf(read'[q].kind), read'[q].version, read'[q].time)
    BY DEF ReadsBounded, CurrentAfter, Current
  <2>1. CASE q = r
    <3>1. read'[q] = x
      BY <2>1 DEF IInv, TypeOK
    <3> QED BY <3>1, <1>4, <1>5 DEF CurrentAfter
  <2>2. CASE q # r
    <3>1. read'[q] = read[q]
      BY <2>2 DEF IInv, TypeOK
    <3> QED BY <3>1 DEF IInv, ReadsBounded
  <2> QED BY <2>1, <2>2
<1>7. StoresOvertaken'
  <2>1. dropped <= Current("usuario")
    BY DEF IInv, StoresOvertaken
  <2>2. dropped \in Nat
    BY DEF IInv, TypeOK
  <2>3. ASSUME NEW q \in Reads, read'[q].at = "set", read'[q].kind = "profile",
               read'[q].version < dropped
        PROVE  q \in overtaken
    <3>1. CASE q = r
      <4>1. read'[q] = x
        BY <3>1 DEF IInv, TypeOK
      <4>2. x.version = Current("usuario")
        BY <2>3, <4>1 DEF TableOf
      <4> QED BY <2>1, <2>2, <2>3, <4>1, <4>2, <1>4 DEF Tables
    <3>2. CASE q # r
      <4>1. read'[q] = read[q]
        BY <3>2 DEF IInv, TypeOK
      <4> QED BY <4>1, <2>3 DEF IInv, StoresOvertaken
    <3> QED BY <3>1, <3>2
  <2> QED BY <2>1, <2>3 DEF StoresOvertaken, Current
<1>8. LookupSawValid'
  <2> SUFFICES ASSUME NEW q \in Reads, read'[q].kind = "profile",
                      read'[q].at \in {"get", "find", "findUncached", "set"}
               PROVE  /\ read'[q].began \in 1..Current("usuario")
                      /\ read'[q].at # "findUncached"
                           => \E v \in read'[q].began..Current("usuario") :
                                rows["usuario"][v].valid
    BY DEF LookupSawValid, Current
  <2>1. CASE q = r
    <3>1. read'[q] = x
      BY <2>1 DEF IInv, TypeOK
    <3> QED BY <3>1
  <2>2. CASE q # r
    <3>1. read'[q] = read[q]
      BY <2>2 DEF IInv, TypeOK
    <3> QED BY <3>1 DEF IInv, LookupSawValid
  <2> QED BY <2>1, <2>2
<1>9. AnswerKnown' /\ StaleBounded' /\ NoProfileForDisabled'
  <2>1. TableOf(a.kind) \in Tables
    BY DEF Answer, Kinds, Tables, TableOf
  <2>2. a.version \in Nat
    BY DEF Answer
  <2> QED BY <2>1, <2>2, <1>4
        DEF AnswerKnown, StaleBounded, NoProfileForDisabled, CurrentAfter, Current
<1>10. ProfileFresh'
  BY DEF IInv, ProfileFresh
<1> QED
  BY <1>1, <1>2, <1>3, <1>6, <1>7, <1>8, <1>9, <1>10 DEF IInv

\* There is a current version, and an entry may be an answer.
LEMMA CurrentOK ==
    ASSUME IInv
    PROVE  /\ \A k \in Kinds : TableOf(k) \in Tables
           /\ \A t \in Tables : Current(t) \in Nat \ {0} /\ rows[t][Current(t)] \in Version
           /\ now \in Nat /\ slowest \in Nat /\ Ttl \in Nat
<1>1. \A k \in Kinds : TableOf(k) \in Tables
  BY DEF Kinds, Tables, TableOf
<1>2. ASSUME NEW t \in Tables
      PROVE  Current(t) \in Nat \ {0} /\ rows[t][Current(t)] \in Version
  <2>1. rows[t] \in Seq(Version) /\ Len(rows[t]) > 0
    BY DEF IInv, TypeOK, Ordered
  <2> QED BY <2>1 DEF Current
<1> QED BY <1>1, <1>2 DEF IInv, TypeOK

LEMMA EntryAnswers ==
    ASSUME IInv, NEW k \in Kinds, entry[k].version # 0
    PROVE  /\ entry[k].version \in 1..Current(TableOf(k))
           /\ CurrentAfter(TableOf(k), entry[k].version, now - Ttl - slowest)
<1> DEFINE t == TableOf(k)  v == entry[k].version
<1>1. /\ v \in 1..Current(t)
      /\ entry[k].until > now
      /\ CurrentAfter(t, v, entry[k].until - Ttl - slowest)
  BY DEF IInv, EntriesBounded
<1>2. now \in Nat /\ slowest \in Nat /\ Ttl \in Nat /\ entry[k].until \in Nat
      /\ rows[t] \in Seq(Version)
  BY CurrentOK DEF IInv, TypeOK, Entry
<1> HIDE DEF t, v
<1>3. CASE v = Current(t)
  BY <1>1, <1>3 DEF CurrentAfter, t, v
<1>4. CASE v # Current(t)
  <2>1. v + 1 \in 1..Len(rows[t])
    BY <1>1, <1>2, <1>4 DEF Current
  <2>2. rows[t][v + 1] \in Version
    BY <1>2, <2>1
  <2>3. rows[t][v + 1].since >= entry[k].until - Ttl - slowest
    BY <1>1, <1>4 DEF CurrentAfter
  <2>4. rows[t][v + 1].since \in Nat
    BY <2>2 DEF Version
  <2>5. \A s, u \in Nat : s >= u - Ttl - slowest /\ u > now => s >= now - Ttl - slowest
    BY <1>2
  <2>6. rows[t][v + 1].since >= now - Ttl - slowest
    BY <1>1, <1>2, <2>3, <2>4, <2>5
  <2> QED BY <1>1, <2>6 DEF CurrentAfter, t, v
<1> QED BY <1>3, <1>4

LEMMA BeginInv ==
    ASSUME IInv, NEW r \in Reads, UNCHANGED unchangedByQuery,
           NEW k \in Kinds, NEW a \in {"get", "find", "findUncached"},
           Begin(r, k, a),
           k = "profile" => a = "findUncached" \/ Live("usuario")
    PROVE  IInv'
<1> DEFINE x == [at |-> a, kind |-> k, began |-> Current(TableOf(k)),
                 version |-> 0, time |-> 0]
<1>1. x \in Read /\ x.time <= now /\ x.at # "set"
  BY CurrentOK DEF Read
<1>2. read' = [read EXCEPT ![r] = x] /\ answer' = NoAnswer
  BY DEF Begin
<1>3. NoAnswer \in Answer /\ NoAnswer.version = 0
  BY DEF NoAnswer, Answer, Kinds
<1>4. ASSUME k = "profile"
      PROVE  /\ x.began \in 1..Current("usuario")
             /\ a # "findUncached"
                  => \E v \in x.began..Current("usuario") : rows["usuario"][v].valid
  BY <1>4, CurrentOK DEF Live, TableOf, Tables
<1> HIDE DEF x
<1>5. x.kind = k /\ x.at = a
  BY DEF x
<1> QED BY <1>1, <1>2, <1>3, <1>4, <1>5, QueryInv

LEMMA AnswerAtOnceInv ==
    ASSUME IInv, NEW r \in Reads, UNCHANGED unchangedByQuery,
           NEW k \in Kinds, NEW v \in Nat, AnswerAtOnce(r, k, v),
           v # 0 => /\ v \in 1..Current(TableOf(k))
                    /\ CurrentAfter(TableOf(k), v, now - Ttl - slowest)
                    /\ k # "profile"
    PROVE  IInv'
<1> DEFINE x == AtRest("done")
           b == [kind |-> k, began |-> Current(TableOf(k)), version |-> v]
<1>1. x \in Read /\ x.time <= now /\ x.at = "done"
  BY CurrentOK DEF Read, AtRest, Kinds
<1>2. read' = [read EXCEPT ![r] = x] /\ answer' = b
  BY DEF AnswerAtOnce
<1>3. b \in Answer /\ b.version = v /\ b.kind = k
  BY CurrentOK DEF Answer
<1> HIDE DEF x, b
<1> QED BY <1>1, <1>2, <1>3, QueryInv

LEMMA AnswerWithInv ==
    ASSUME IInv, NEW r \in Reads, UNCHANGED unchangedByQuery,
           NEW v \in Nat, AnswerWith(r, v),
           v # 0 => /\ v \in 1..Current(TableOf(read[r].kind))
                    /\ CurrentAfter(TableOf(read[r].kind), v, now - Ttl - slowest)
                    /\ read[r].kind = "profile"
                         => \E u \in read[r].began..Current("usuario") : rows["usuario"][u].valid
    PROVE  IInv'
<1> DEFINE x == AtRest("done")
           b == [kind |-> read[r].kind, began |-> read[r].began, version |-> v]
<1>1. x \in Read /\ x.time <= now /\ x.at = "done"
  BY CurrentOK DEF Read, AtRest, Kinds
<1>2. read' = [read EXCEPT ![r] = x] /\ answer' = b
  BY DEF AnswerWith
<1>3. b \in Answer /\ b.version = v /\ b.kind = read[r].kind /\ b.began = read[r].began
  BY DEF Answer, IInv, TypeOK, Read
<1> HIDE DEF x, b
<1> QED BY <1>1, <1>2, <1>3, QueryInv

LEMMA FoundInv ==
    ASSUME IInv, NEW r \in Reads, UNCHANGED unchangedByQuery,
           read[r].at = "find", Found(r, TableOf(read[r].kind))
    PROVE  IInv'
<1> DEFINE t == TableOf(read[r].kind)
           x == [read[r] EXCEPT !.at = "set", !.version = Current(t), !.time = now]
<1>1. read[r] \in Read
  BY DEF IInv, TypeOK
<1>2. Current(t) \in Nat /\ now \in Nat
  BY <1>1, CurrentOK DEF Read
<1>3. /\ x \in Read /\ x.time = now /\ x.at = "set" /\ x.kind = read[r].kind
      /\ x.version = Current(t) /\ x.began = read[r].began
  BY <1>1, <1>2 DEF Read
<1>4. read' = [read EXCEPT ![r] = x] /\ answer' = NoAnswer
  BY DEF Found, IInv, TypeOK
<1>5. NoAnswer \in Answer /\ NoAnswer.version = 0
  BY DEF NoAnswer, Answer, Kinds
<1>6. ASSUME x.kind = "profile"
      PROVE  /\ x.began \in 1..Current("usuario")
             /\ \E v \in x.began..Current("usuario") : rows["usuario"][v].valid
  BY <1>3, <1>6 DEF IInv, LookupSawValid
<1>7. x.time <= now /\ TableOf(x.kind) = t
  BY <1>2, <1>3
<1> HIDE DEF x, t
<1> QED BY <1>2, <1>3, <1>4, <1>5, <1>6, <1>7, QueryInv

-----------------------------------------------------------------------------
(* The store, whose version may have been replaced since it was read.      *)

\* A bound that a slower fill loosens.
LEMMA Weaker ==
    \A n, m, t, a, b \in Nat : n >= m - t - a /\ b >= a => n >= m - t - b
OBVIOUS

LEMMA StoreInv ==
    ASSUME IInv, NEW r \in Reads, NEW k \in Kinds, Store(r, k)
    PROVE  IInv'
<1> DEFINE v == read[r].version  t == TableOf(k)
<1>1. /\ read[r].at = "set" /\ read[r].kind = k /\ read[r] \in Read
      /\ UNCHANGED <<now, rows, write, dropped, overtaken>>
  BY DEF Store, IInv, TypeOK
<1>2. /\ read' = [read EXCEPT ![r] = AtRest("done")]
      /\ answer' = [kind |-> k, began |-> read[r].began, version |-> v]
  BY <1>1 DEF Store, AnswerWith
<1>3. /\ v \in 1..Current(t) /\ CurrentAfter(t, v, read[r].time)
      /\ read[r].time \in Nat /\ read[r].time <= now /\ now \in Nat
  BY <1>1, CurrentOK DEF IInv, ReadsBounded, Read
<1>4. /\ slowest' \in Nat /\ slowest' >= slowest /\ slowest' >= now - read[r].time
  BY <1>3, CurrentOK DEF Store
<1>5. \A q \in Kinds :
        \/ entry'[q] = entry[q]
        \/ q = k /\ entry'[q] = [version |-> v, until |-> now + Ttl, by |-> r]
  BY DEF Store, IInv, TypeOK
<1>6. t \in Tables /\ rows[t] \in Seq(Version)
  BY CurrentOK DEF IInv, TypeOK
<1>7. CurrentAfter(t, v, now - slowest')
  <2>1. CASE v = Current(t)
    BY <2>1 DEF CurrentAfter
  <2>2. CASE v # Current(t)
    <3>1. v + 1 \in 1..Len(rows[t])
      BY <1>3, <1>6, <2>2 DEF Current
    <3>2. rows[t][v + 1] \in Version
      BY <1>6, <3>1
    <3>3. rows[t][v + 1].since \in Nat /\ rows[t][v + 1].since >= read[r].time
      BY <1>3, <2>2, <3>2 DEF CurrentAfter, Version
    <3> QED BY <1>3, <1>4, <3>3 DEF CurrentAfter
  <2> QED BY <2>1, <2>2
<1>8. TypeOK'
  <2>1. entry' \in [Kinds -> Entry]
    <3>1. [version |-> v, until |-> now + Ttl, by |-> r] \in Entry
      BY <1>1, <1>3 DEF Entry, Read
    <3> QED BY <3>1 DEF Store, IInv, TypeOK
  <2>2. read' \in [Reads -> Read]
    BY <1>2 DEF IInv, TypeOK, Read, AtRest, Kinds
  <2>3. answer' \in Answer
    BY <1>1, <1>2 DEF Answer, Read
  <2> QED BY <1>1, <1>4, <2>1, <2>2, <2>3 DEF IInv, TypeOK
<1>9. Ordered'
  BY <1>1 DEF IInv, Ordered
<1>10. EntriesBounded'
  <2> SUFFICES ASSUME NEW q \in Kinds, entry'[q].version # 0
               PROVE  /\ entry'[q].version \in 1..Current(TableOf(q))
                      /\ entry'[q].until > now /\ entry'[q].until <= now + Ttl
                      /\ CurrentAfter(TableOf(q), entry'[q].version,
                                      entry'[q].until - Ttl - slowest')
    BY <1>1 DEF EntriesBounded, CurrentAfter, Current
  <2>1. CASE entry'[q] = entry[q]
    <3> DEFINE u == entry[q].version  s == TableOf(q)
    <3>1. /\ u \in 1..Current(s) /\ entry[q].until > now /\ entry[q].until <= now + Ttl
          /\ CurrentAfter(s, u, entry[q].until - Ttl - slowest)
      BY <2>1 DEF IInv, EntriesBounded
    <3>2. s \in Tables /\ rows[s] \in Seq(Version) /\ entry[q].until \in Nat
      BY CurrentOK DEF IInv, TypeOK, Entry
    <3>3. CASE u = Current(s)
      BY <2>1, <3>1, <3>3 DEF CurrentAfter
    <3>4. CASE u # Current(s)
      <4>1. u + 1 \in 1..Len(rows[s])
        BY <3>1, <3>2, <3>4 DEF Current
      <4>2. rows[s][u + 1] \in Version
        BY <3>2, <4>1
      <4>3. rows[s][u + 1].since \in Nat
            /\ rows[s][u + 1].since >= entry[q].until - Ttl - slowest
        BY <3>1, <3>4, <4>2 DEF CurrentAfter, Version
      <4>4. slowest \in Nat /\ slowest' \in Nat /\ slowest' >= slowest /\ Ttl \in Nat
        BY <1>4, CurrentOK
      <4>5. rows[s][u + 1].since >= entry[q].until - Ttl - slowest'
        BY <3>2, <4>3, <4>4, Weaker
      <4> QED BY <2>1, <3>1, <4>5 DEF CurrentAfter
    <3> QED BY <3>3, <3>4
  <2>2. CASE q = k /\ entry'[q] = [version |-> v, until |-> now + Ttl, by |-> r]
    <3>1. now + Ttl - Ttl - slowest' = now - slowest'
      BY <1>3, <1>4, CurrentOK
    <3>2. entry'[q].version = v /\ entry'[q].until = now + Ttl
      BY <2>2
    <3>3. now + Ttl > now /\ now + Ttl <= now + Ttl
      BY <1>3
    <3> HIDE DEF v
    <3> QED BY <1>3, <1>7, <2>2, <3>1, <3>2, <3>3
  <2> QED BY <1>5, <2>1, <2>2
<1>11. \A q \in Reads : read'[q] = read[q] \/ read'[q] = AtRest("done")
  BY <1>2 DEF IInv, TypeOK
<1>12. ReadsBounded'
  BY <1>1, <1>3, <1>11 DEF IInv, ReadsBounded, AtRest, CurrentAfter, Current
<1>13. StoresOvertaken'
  BY <1>1, <1>11 DEF IInv, StoresOvertaken, AtRest, Current
<1>14. LookupSawValid'
  BY <1>1, <1>11 DEF IInv, LookupSawValid, AtRest, Current
<1>15. AnswerKnown'
  BY <1>1, <1>2, <1>3 DEF AnswerKnown, Current
<1>16. StaleBounded'
  <2>1. CASE v = Current(t)
    BY <1>1, <1>2, <2>1 DEF StaleBounded, CurrentAfter, Current
  <2>2. CASE v # Current(t)
    <3>1. v + 1 \in 1..Len(rows[t])
      BY <1>3, <1>6, <2>2 DEF Current
    <3>2. rows[t][v + 1] \in Version
      BY <1>6, <3>1
    <3>3. rows[t][v + 1].since \in Nat /\ rows[t][v + 1].since >= now - slowest'
      BY <1>7, <2>2, <3>2 DEF CurrentAfter, Version
    <3>4. rows[t][v + 1].since >= now - Ttl - slowest'
      BY <1>3, <1>4, <3>3, CurrentOK
    <3> QED BY <1>1, <1>2, <3>4 DEF StaleBounded, CurrentAfter, Current
  <2> QED BY <2>1, <2>2
<1>17. ProfileFresh'
  <2> SUFFICES ASSUME entry'["profile"].version # 0, entry'["profile"].version < dropped
               PROVE  entry'["profile"].by \in overtaken
    BY <1>1 DEF ProfileFresh
  <2>1. "profile" \in Kinds
    BY DEF Kinds
  <2>2. CASE entry'["profile"] = entry["profile"]
    BY <2>2 DEF IInv, ProfileFresh
  <2>3. CASE /\ k = "profile"
             /\ entry'["profile"] = [version |-> v, until |-> now + Ttl, by |-> r]
    BY <1>1, <2>3 DEF IInv, StoresOvertaken
  <2> QED BY <1>5, <2>1, <2>2, <2>3
<1>18. NoProfileForDisabled'
  BY <1>1, <1>2 DEF IInv, LookupSawValid, NoProfileForDisabled, Current
<1> QED
  BY <1>8, <1>9, <1>10, <1>12, <1>13, <1>14, <1>15, <1>16, <1>17, <1>18 DEF IInv

-----------------------------------------------------------------------------
(* The writes and the clock.                                               *)

\* A version that was current after some time is so when another one is added.
LEMMA AppendKeeps ==
    ASSUME IInv, NEW u \in Tables, NEW x \in Version,
           rows' = [rows EXCEPT ![u] = Append(@, x)]
    PROVE  /\ rows' \in [Tables -> Seq(Version)]
           /\ \A t \in Tables :
                /\ Len(rows'[t]) \in Nat /\ Len(rows'[t]) >= Len(rows[t])
                /\ \A v \in 1..Len(rows[t]) : rows'[t][v] = rows[t][v]
                /\ \A v \in 1..Len(rows'[t]) :
                     v \in 1..Len(rows[t]) \/ (v = Len(rows[t]) + 1 /\ rows'[t][v] = x)
<1>1. rows \in [Tables -> Seq(Version)]
  BY DEF IInv, TypeOK
<1>2. ASSUME NEW t \in Tables
      PROVE  /\ rows'[t] \in Seq(Version)
             /\ Len(rows'[t]) \in Nat /\ Len(rows'[t]) >= Len(rows[t])
             /\ \A v \in 1..Len(rows[t]) : rows'[t][v] = rows[t][v]
             /\ \A v \in 1..Len(rows'[t]) :
                  v \in 1..Len(rows[t]) \/ (v = Len(rows[t]) + 1 /\ rows'[t][v] = x)
  <2>1. rows[t] \in Seq(Version)
    BY <1>1
  <2>2. CASE t = u
    <3>1. rows'[t] = Append(rows[t], x)
      BY <1>1, <2>2
    <3> QED BY <2>1, <3>1
  <2>3. CASE t # u
    <3>1. rows'[t] = rows[t]
      BY <1>1, <2>3
    <3> QED BY <2>1, <3>1
  <2> QED BY <2>2, <2>3
<1>3. rows' \in [Tables -> Seq(Version)]
  BY <1>1, <1>2
<1> QED BY <1>2, <1>3

LEMMA CommitInv ==
    ASSUME IInv, NEW w \in Writes, NEW u \in Tables, NEW valid \in BOOLEAN,
           NEW a \in {"list", "drop", "done"}, Commit(w, u, valid, a)
    PROVE  IInv'
<1> DEFINE x == [valid |-> valid, since |-> now]
<1>1. /\ rows' = [rows EXCEPT ![u] = Append(@, x)]
      /\ write' = [write EXCEPT ![w] = a] /\ answer' = NoAnswer
      /\ UNCHANGED <<now, entry, read, slowest, dropped, overtaken>>
  BY DEF Commit, history
<1>2. x \in Version /\ x.since = now
  BY CurrentOK DEF Version
<1> HIDE DEF x
<1>3. /\ rows' \in [Tables -> Seq(Version)]
      /\ \A t \in Tables :
           /\ Len(rows'[t]) \in Nat /\ Len(rows'[t]) >= Len(rows[t])
           /\ \A v \in 1..Len(rows[t]) : rows'[t][v] = rows[t][v]
           /\ \A v \in 1..Len(rows'[t]) :
                v \in 1..Len(rows[t]) \/ (v = Len(rows[t]) + 1 /\ rows'[t][v] = x)
  BY <1>1, <1>2, AppendKeeps
<1>4. \A t \in Tables : Len(rows[t]) \in Nat \ {0}
  BY CurrentOK DEF Current
<1>5. ASSUME NEW t \in Tables, NEW v \in 1..Len(rows[t]), NEW time \in Int, time <= now,
             CurrentAfter(t, v, time)
      PROVE  v \in 1..Len(rows'[t]) /\ (v = Len(rows'[t]) \/ rows'[t][v + 1].since >= time)
  <2>1. v \in 1..Len(rows'[t])
    BY <1>3, <1>4
  <2>2. CASE v = Len(rows[t]) /\ v # Len(rows'[t])
    <3>1. v + 1 \in 1..Len(rows'[t]) /\ v + 1 \notin 1..Len(rows[t])
      BY <1>3, <1>4, <2>1, <2>2
    <3>2. rows'[t][v + 1] = x
      BY <1>3, <3>1
    <3> QED BY <1>2, <1>5, <2>1, <3>2, CurrentOK
  <2>3. CASE v # Len(rows[t])
    <3>1. v + 1 \in 1..Len(rows[t])
      BY <1>4, <2>3
    <3>2. rows'[t][v + 1] = rows[t][v + 1]
      BY <1>3, <3>1
    <3> QED BY <1>5, <2>1, <2>3, <3>2 DEF CurrentAfter, Current
  <2> QED BY <2>1, <2>2, <2>3
<1>6. \A k \in Kinds : TableOf(k) \in Tables
  BY CurrentOK
<1>7. TypeOK'
  BY <1>1, <1>3 DEF IInv, TypeOK, NoAnswer, Answer, Kinds
<1>8. Ordered'
  <2> SUFFICES ASSUME NEW t \in Tables
               PROVE  /\ Len(rows'[t]) > 0
                      /\ \A v \in 1..Len(rows'[t]) : rows'[t][v].since <= now
                      /\ \A v \in 2..Len(rows'[t]) : rows'[t][v - 1].since <= rows'[t][v].since
    BY <1>1 DEF Ordered
  <2>1. /\ \A v \in 1..Len(rows[t]) : rows[t][v].since <= now
        /\ \A v \in 2..Len(rows[t]) : rows[t][v - 1].since <= rows[t][v].since
    BY DEF IInv, Ordered
  <2>2. now <= now
    BY CurrentOK
  <2>3. \A v \in 1..Len(rows'[t]) : rows'[t][v].since <= now
    BY <1>2, <1>3, <2>1, <2>2
  <2>4. ASSUME NEW v \in 2..Len(rows'[t])
        PROVE  rows'[t][v - 1].since <= rows'[t][v].since
    <3>1. CASE v \in 1..Len(rows[t])
      <4>1. v - 1 \in 1..Len(rows[t]) /\ v \in 2..Len(rows[t])
        BY <1>3, <1>4, <2>4, <3>1
      <4> QED BY <1>3, <2>1, <3>1, <4>1
    <3>2. CASE v = Len(rows[t]) + 1 /\ rows'[t][v] = x
      <4>1. v - 1 \in 1..Len(rows'[t])
        BY <1>3, <1>4, <2>4
      <4> QED BY <1>2, <2>3, <3>2, <4>1
    <3>3. v \in 1..Len(rows'[t])
      BY <1>3, <2>4
    <3> QED BY <1>3, <3>1, <3>2, <3>3
  <2> QED BY <1>3, <1>4, <2>3, <2>4
<1>9. EntriesBounded'
  <2> SUFFICES ASSUME NEW k \in Kinds, entry[k].version # 0
               PROVE  /\ entry[k].version \in 1..Len(rows'[TableOf(k)])
                      /\ entry[k].until > now /\ entry[k].until <= now + Ttl
                      /\ \/ entry[k].version = Len(rows'[TableOf(k)])
                         \/ rows'[TableOf(k)][entry[k].version + 1].since
                              >= entry[k].until - Ttl - slowest
    BY <1>1 DEF EntriesBounded, CurrentAfter, Current
  <2>1. /\ entry[k].version \in 1..Len(rows[TableOf(k)])
        /\ entry[k].until > now /\ entry[k].until <= now + Ttl
        /\ CurrentAfter(TableOf(k), entry[k].version, entry[k].until - Ttl - slowest)
    BY DEF IInv, EntriesBounded, Current
  <2>2. entry[k].until \in Nat
    BY DEF IInv, TypeOK, Entry
  <2>3. /\ entry[k].until - Ttl - slowest \in Int
        /\ entry[k].until - Ttl - slowest <= now
    BY <2>1, <2>2, CurrentOK
  <2> QED BY <1>5, <1>6, <2>1, <2>3
<1>10. ReadsBounded'
  <2> SUFFICES ASSUME NEW r \in Reads
               PROVE  /\ read[r].time <= now
                      /\ read[r].at = "set" =>
                           /\ read[r].version \in 1..Len(rows'[TableOf(read[r].kind)])
                           /\ \/ read[r].version = Len(rows'[TableOf(read[r].kind)])
                              \/ rows'[TableOf(read[r].kind)][read[r].version + 1].since
                                   >= read[r].time
    BY <1>1 DEF ReadsBounded, CurrentAfter, Current
  <2>1. /\ read[r].time <= now
        /\ read[r].at = "set" =>
             /\ read[r].version \in 1..Len(rows[TableOf(read[r].kind)])
             /\ CurrentAfter(TableOf(read[r].kind), read[r].version, read[r].time)
    BY DEF IInv, ReadsBounded, Current
  <2>2. read[r].time \in Int /\ TableOf(read[r].kind) \in Tables
    BY <1>6 DEF IInv, TypeOK, Read
  <2> QED BY <1>5, <2>1, <2>2
<1>11. "usuario" \in Tables
  BY DEF Tables
<1>12. StoresOvertaken'
  <2>1. dropped \in Nat
    BY DEF IInv, TypeOK
  <2>2. dropped <= Len(rows'["usuario"])
    BY <1>3, <1>4, <1>11, <2>1 DEF IInv, StoresOvertaken, Current
  <2> QED BY <1>1, <2>2 DEF IInv, StoresOvertaken, Current
<1>13. LookupSawValid'
  <2> SUFFICES ASSUME NEW r \in Reads, read[r].kind = "profile",
                      read[r].at \in {"get", "find", "findUncached", "set"}
               PROVE  /\ read[r].began \in 1..Len(rows'["usuario"])
                      /\ read[r].at # "findUncached"
                           => \E v \in read[r].began..Len(rows'["usuario"]) :
                                rows'["usuario"][v].valid
    BY <1>1 DEF LookupSawValid, Current
  <2>1. /\ read[r].began \in 1..Len(rows["usuario"])
        /\ read[r].at # "findUncached"
             => \E v \in read[r].began..Len(rows["usuario"]) : rows["usuario"][v].valid
    BY DEF IInv, LookupSawValid, Current
  <2>2. read[r].began \in 1..Len(rows'["usuario"])
    BY <1>3, <1>4, <1>11, <2>1
  <2>3. ASSUME read[r].at # "findUncached"
        PROVE  \E v \in read[r].began..Len(rows'["usuario"]) : rows'["usuario"][v].valid
    <3>1. PICK v \in read[r].began..Len(rows["usuario"]) : rows["usuario"][v].valid
      BY <2>1, <2>3
    <3>2. v \in 1..Len(rows["usuario"]) /\ v \in read[r].began..Len(rows'["usuario"])
      BY <1>3, <1>4, <1>11, <2>1, <3>1
    <3> QED BY <1>3, <1>11, <3>1, <3>2
  <2> QED BY <2>2, <2>3
<1>14. AnswerKnown' /\ StaleBounded' /\ NoProfileForDisabled'
  BY <1>1, <1>3, <1>6 DEF AnswerKnown, StaleBounded, NoProfileForDisabled, NoAnswer, Current,
     Kinds
<1>15. ProfileFresh'
  BY <1>1 DEF IInv, ProfileFresh
<1> QED
  BY <1>7, <1>8, <1>9, <1>10, <1>12, <1>13, <1>14, <1>15 DEF IInv

\* A write that only goes on.
LEMMA WriteOnInv ==
    ASSUME IInv, NEW w \in Writes, NEW a \in {"drop", "done"},
           write' = [write EXCEPT ![w] = a], answer' = NoAnswer,
           UNCHANGED <<now, rows, entry, read, history>>
    PROVE  IInv'
<1> USE DEF history
<1>1. TypeOK'
  BY DEF IInv, TypeOK, NoAnswer, Answer, Kinds
<1>2. Ordered' /\ EntriesBounded' /\ ReadsBounded' /\ StoresOvertaken' /\ LookupSawValid'
  BY DEF IInv, Ordered, EntriesBounded, ReadsBounded, StoresOvertaken, LookupSawValid,
     CurrentAfter, Current
<1>3. AnswerKnown' /\ StaleBounded' /\ NoProfileForDisabled'
  <2>1. Current(TableOf("validity")) \in Nat
    BY CurrentOK DEF Kinds
  <2> QED BY <2>1 DEF AnswerKnown, StaleBounded, NoProfileForDisabled, NoAnswer, Current
<1>4. ProfileFresh'
  BY DEF IInv, ProfileFresh
<1> QED BY <1>1, <1>2, <1>3, <1>4 DEF IInv

LEMMA InvalidateInv ==
    ASSUME IInv, NEW w \in Writes, InvalidateUserCache(w)
    PROVE  IInv'
<1> USE DEF InvalidateUserCache
<1>1. Current("usuario") \in Nat
  BY CurrentOK DEF Tables
<1>2. \A k \in Kinds : entry'[k] = entry[k] \/ entry'[k] = NoEntry
  BY DEF IInv, TypeOK
<1>3. TypeOK'
  BY <1>1 DEF IInv, TypeOK, NoAnswer, Answer, Kinds, NoEntry, Entry
<1>4. Ordered' /\ ReadsBounded' /\ LookupSawValid'
  BY DEF IInv, Ordered, ReadsBounded, LookupSawValid, CurrentAfter, Current
<1>5. EntriesBounded'
  BY <1>2 DEF IInv, EntriesBounded, CurrentAfter, Current, NoEntry
<1>6. StoresOvertaken'
  BY <1>1 DEF StoresOvertaken, Current
<1>7. AnswerKnown' /\ StaleBounded' /\ NoProfileForDisabled'
  <2>1. Current(TableOf("validity")) \in Nat
    BY CurrentOK DEF Kinds
  <2> QED BY <2>1 DEF AnswerKnown, StaleBounded, NoProfileForDisabled, NoAnswer, Current
<1>8. ProfileFresh'
  <2>1. entry'["profile"].version = 0
    BY DEF IInv, TypeOK, Kinds, NoEntry
  <2> QED BY <2>1 DEF ProfileFresh
<1> QED BY <1>3, <1>4, <1>5, <1>6, <1>7, <1>8 DEF IInv

LEMMA TickInv ==
    ASSUME IInv, Tick
    PROVE  IInv'
<1> USE DEF Tick, history
<1>1. now \in Nat /\ now' = now + 1
  BY CurrentOK
<1>2. \A k \in Kinds :
        entry'[k] = NoEntry \/ (entry'[k] = entry[k] /\ ~(entry[k].until <= now + 1))
  BY DEF IInv, TypeOK
<1>3. TypeOK'
  <2>1. entry' \in [Kinds -> Entry]
    BY DEF IInv, TypeOK, NoEntry, Entry
  <2> QED BY <1>1, <2>1 DEF IInv, TypeOK, NoAnswer, Answer, Kinds
<1>4. Ordered'
  <2>1. ASSUME NEW t \in Tables, NEW v \in 1..Len(rows[t])
        PROVE  rows[t][v].since <= now + 1
    <3>1. rows[t][v] \in Version
      BY DEF IInv, TypeOK
    <3>2. rows[t][v].since \in Nat /\ rows[t][v].since <= now
      BY <3>1 DEF IInv, Ordered, Version
    <3> QED BY <1>1, <3>2
  <2> QED BY <1>1, <2>1 DEF IInv, Ordered
<1>5. EntriesBounded'
  <2> SUFFICES ASSUME NEW k \in Kinds, entry'[k].version # 0
               PROVE  /\ entry'[k].version \in 1..Current(TableOf(k))
                      /\ entry'[k].until > now + 1 /\ entry'[k].until <= now + 1 + Ttl
                      /\ CurrentAfter(TableOf(k), entry'[k].version,
                                      entry'[k].until - Ttl - slowest)
    BY <1>1 DEF EntriesBounded, CurrentAfter, Current
  <2>1. entry'[k] = entry[k] /\ ~(entry[k].until <= now + 1)
    BY <1>2 DEF NoEntry
  <2>2. entry[k].until \in Nat /\ Ttl \in Nat
    BY CurrentOK DEF IInv, TypeOK, Entry
  <2> QED BY <1>1, <2>1, <2>2 DEF IInv, EntriesBounded
<1>6. ReadsBounded'
  <2>1. ASSUME NEW r \in Reads PROVE read[r].time <= now + 1
    BY <1>1 DEF IInv, TypeOK, Read, ReadsBounded
  <2> QED BY <1>1, <2>1 DEF IInv, ReadsBounded, CurrentAfter, Current
<1>7. StoresOvertaken' /\ LookupSawValid'
  BY DEF IInv, StoresOvertaken, LookupSawValid, Current
<1>8. AnswerKnown' /\ StaleBounded' /\ NoProfileForDisabled'
  <2>1. Current(TableOf("validity")) \in Nat
    BY CurrentOK DEF Kinds
  <2> QED BY <2>1 DEF AnswerKnown, StaleBounded, NoProfileForDisabled, NoAnswer, Current
<1>9. ProfileFresh'
  <2>1. "profile" \in Kinds
    BY DEF Kinds
  <2> QED BY <1>2, <2>1 DEF IInv, ProfileFresh, NoEntry
<1> QED BY <1>3, <1>4, <1>5, <1>6, <1>7, <1>8, <1>9 DEF IInv

-----------------------------------------------------------------------------
(* Every step preserves the invariant.                                     *)

LEMMA GetFirstInv ==
    ASSUME IInv, NEW r \in Reads, NEW k \in {"validity", "plan"}, GetFirst(r, k),
           UNCHANGED unchangedByQuery
    PROVE  IInv'
<1>1. k \in Kinds /\ k # "profile"
  BY DEF Kinds
<1>2. CASE entry[k].version # 0 /\ AnswerAtOnce(r, k, entry[k].version)
  <2>1. entry[k].version \in Nat
    BY <1>1 DEF IInv, TypeOK, Entry
  <2> QED BY <1>1, <1>2, <2>1, EntryAnswers, AnswerAtOnceInv
<1>3. CASE Begin(r, k, "find")
  BY <1>1, <1>3, BeginInv
<1> QED BY <1>2, <1>3 DEF GetFirst

\* An answer that shows no version.
LEMMA NullInv ==
    ASSUME IInv, NEW r \in Reads, AnswerWith(r, 0), UNCHANGED unchangedByQuery
    PROVE  IInv'
BY AnswerWithInv

LEMMA JwtInv ==
    ASSUME IInv, NEW r \in Reads, JwtGet(r) \/ JwtFindOne(r) \/ JwtSet(r)
    PROVE  IInv'
<1>1. CASE JwtGet(r)
  BY <1>1, GetFirstInv DEF JwtGet
<1>2. CASE JwtFindOne(r)
  <2>1. read[r].at = "find" /\ TableOf(read[r].kind) = "usuario"
        /\ UNCHANGED unchangedByQuery
    BY <1>2 DEF JwtFindOne, TableOf
  <2>2. CASE Found(r, "usuario")
    BY <2>1, <2>2, FoundInv
  <2> QED BY <1>2, <2>1, <2>2, NullInv DEF JwtFindOne
<1>3. CASE JwtSet(r)
  BY <1>3, StoreInv DEF JwtSet, Kinds
<1> QED BY <1>1, <1>2, <1>3

LEMMA ProfileInv ==
    ASSUME IInv, NEW r \in Reads,
           ProfileLookup(r) \/ ProfileGet(r) \/ ProfileFind(r) \/ ProfileSet(r)
    PROVE  IInv'
<1>1. "profile" \in Kinds /\ TableOf("profile") = "usuario" /\ "usuario" \in Tables
  BY DEF Kinds, TableOf, Tables
<1>2. CASE ProfileLookup(r)
  <2>1. CASE Begin(r, "profile", "get") /\ Live("usuario")
    BY <1>1, <1>2, <2>1, BeginInv DEF ProfileLookup
  <2>2. CASE AnswerAtOnce(r, "profile", 0)
    BY <1>1, <1>2, <2>2, AnswerAtOnceInv DEF ProfileLookup
  <2>3. CASE Begin(r, "profile", "findUncached")
    BY <1>1, <1>2, <2>3, BeginInv DEF ProfileLookup
  <2> QED BY <1>2, <2>1, <2>2, <2>3 DEF ProfileLookup
<1>3. CASE ProfileGet(r)
  <2>1. read[r].at = "get" /\ read[r].kind = "profile" /\ UNCHANGED unchangedByQuery
    BY <1>3 DEF ProfileGet
  <2>2. /\ read[r].began \in 1..Current("usuario")
        /\ \E v \in read[r].began..Current("usuario") : rows["usuario"][v].valid
    BY <2>1 DEF IInv, LookupSawValid
  <2>3. CASE entry["profile"].version # 0 /\ AnswerWith(r, entry["profile"].version)
    <3>1. entry["profile"].version \in Nat
      BY <1>1 DEF IInv, TypeOK, Entry
    <3> QED BY <1>1, <2>1, <2>2, <2>3, <3>1, EntryAnswers, AnswerWithInv
  <2>4. CASE read' = [read EXCEPT ![r].at = "find"] /\ answer' = NoAnswer
    <3> DEFINE x == [read[r] EXCEPT !.at = "find"]
    <3>1. read[r] \in Read
      BY DEF IInv, TypeOK
    <3>2. /\ x \in Read /\ x.at = "find" /\ x.kind = read[r].kind
          /\ x.began = read[r].began /\ x.time = read[r].time
      BY <3>1 DEF Read
    <3>3. read' = [read EXCEPT ![r] = x]
      BY <2>4 DEF IInv, TypeOK
    <3>4. NoAnswer \in Answer /\ NoAnswer.version = 0
      BY DEF NoAnswer, Answer, Kinds
    <3>5. x.time <= now
      BY <3>2 DEF IInv, ReadsBounded
    <3> HIDE DEF x
    <3> QED BY <2>1, <2>2, <2>4, <3>2, <3>3, <3>4, <3>5, QueryInv
  <2> QED BY <1>3, <2>3, <2>4 DEF ProfileGet
<1>4. CASE ProfileFind(r)
  <2>1. /\ read[r].at \in {"find", "findUncached"} /\ read[r].kind = "profile"
        /\ UNCHANGED unchangedByQuery
    BY <1>4 DEF ProfileFind
  <2>2. CASE read[r].at = "find" /\ Found(r, "usuario")
    BY <1>1, <2>1, <2>2, FoundInv
  <2>3. CASE Live("usuario") /\ AnswerWith(r, Current("usuario"))
    <3>1. read[r].began \in 1..Current("usuario")
      BY <2>1 DEF IInv, LookupSawValid
    <3>2. /\ Current("usuario") \in Nat /\ Current("usuario") \in 1..Current("usuario")
          /\ Current("usuario") \in read[r].began..Current("usuario")
      BY <1>1, <3>1, CurrentOK
    <3>3. \E v \in read[r].began..Current("usuario") : rows["usuario"][v].valid
      BY <2>3, <3>2 DEF Live
    <3>4. CurrentAfter("usuario", Current("usuario"), now - Ttl - slowest)
      BY DEF CurrentAfter
    <3> QED BY <1>1, <2>1, <2>3, <3>2, <3>3, <3>4, AnswerWithInv
  <2> QED BY <1>4, <2>1, <2>2, <2>3, NullInv DEF ProfileFind
<1>5. CASE ProfileSet(r)
  BY <1>1, <1>5, StoreInv DEF ProfileSet
<1> QED BY <1>2, <1>3, <1>4, <1>5

LEMMA PlanoInv ==
    ASSUME IInv, NEW r \in Reads, PlanoGet(r) \/ PlanoFind(r) \/ PlanoSet(r)
    PROVE  IInv'
<1>1. CASE PlanoGet(r)
  BY <1>1, GetFirstInv DEF PlanoGet
<1>2. CASE PlanoFind(r)
  <2>1. read[r].at = "find" /\ TableOf(read[r].kind) = "empresa"
        /\ UNCHANGED unchangedByQuery
    BY <1>2 DEF PlanoFind, TableOf
  <2>2. CASE Found(r, "empresa")
    BY <2>1, <2>2, FoundInv
  <2> QED BY <1>2, <2>1, <2>2, NullInv DEF PlanoFind
<1>3. CASE PlanoSet(r)
  BY <1>3, StoreInv DEF PlanoSet, Kinds
<1> QED BY <1>1, <1>2, <1>3

LEMMA WriteInv ==
    ASSUME IInv, NEW w \in Writes, WriteStep(w)
    PROVE  IInv'
<1>1. "usuario" \in Tables /\ "empresa" \in Tables
  BY DEF Tables
<1>2. Live("usuario") \in BOOLEAN
  BY <1>1, CurrentOK DEF Live, Version
<1>3. CASE Disable(w) \/ Restore(w)
  BY <1>1, <1>3, CommitInv DEF Disable, Restore
<1>4. CASE ChangeCredentials(w) \/ ChangePermissoes(w) \/ ChangeMembership(w)
  BY <1>1, <1>2, <1>4, CommitInv DEF ChangeCredentials, ChangePermissoes, ChangeMembership
<1>5. CASE ChangePlano(w) \/ RemoveEmpresa(w)
  BY <1>1, <1>5, CommitInv DEF ChangePlano, RemoveEmpresa
<1>6. CASE ListUsers(w)
  BY <1>6, WriteOnInv DEF ListUsers
<1>7. CASE InvalidateUserCache(w)
  BY <1>7, InvalidateInv
<1>8. CASE InvalidateFails(w)
  BY <1>8, WriteOnInv DEF InvalidateFails
<1> QED BY <1>3, <1>4, <1>5, <1>6, <1>7, <1>8 DEF WriteStep

LEMMA StutterInv ==
    ASSUME IInv, UNCHANGED vars
    PROVE  IInv'
<1> USE DEF vars, history
<1>1. TypeOK' /\ Ordered' /\ EntriesBounded' /\ ReadsBounded'
  BY DEF IInv, TypeOK, Ordered, EntriesBounded, ReadsBounded, CurrentAfter, Current
<1>2. StoresOvertaken' /\ LookupSawValid' /\ AnswerKnown'
  BY DEF IInv, StoresOvertaken, LookupSawValid, AnswerKnown, Current
<1>3. StaleBounded' /\ ProfileFresh' /\ NoProfileForDisabled'
  BY DEF IInv, StaleBounded, ProfileFresh, NoProfileForDisabled, CurrentAfter, Current
<1> QED BY <1>1, <1>2, <1>3 DEF IInv

LEMMA NextInv == IInv /\ [Next]_vars => IInv'
<1> SUFFICES ASSUME IInv, [Next]_vars PROVE IInv'
  OBVIOUS
<1>1. ASSUME NEW r \in Reads, ReadStep(r) PROVE IInv'
  BY <1>1, JwtInv, ProfileInv, PlanoInv DEF ReadStep
<1>2. ASSUME NEW w \in Writes, WriteStep(w) PROVE IInv'
  BY <1>2, WriteInv
<1>3. CASE Tick
  BY <1>3, TickInv
<1>4. CASE AllServed \/ UNCHANGED vars
  BY <1>4, StutterInv DEF AllServed
<1> QED BY <1>1, <1>2, <1>3, <1>4 DEF Next

-----------------------------------------------------------------------------
(* The theorems.                                                           *)

\* IInv holds in every state, whatever the number of requests and the lifetimes.
THEOREM Inductive == Spec => []IInv
<1>1. Init => IInv
  BY InitInv
<1>2. IInv /\ [Next]_vars => IInv'
  BY NextInv
<1> QED BY <1>1, <1>2, PTL DEF Spec

\* No answer is older than the time to live plus the slowest fill.
THEOREM StalenessIsBounded == Spec => []StaleBounded
<1>1. IInv => StaleBounded
  BY DEF IInv
<1> QED BY <1>1, Inductive, PTL

\* Only a reader that was overtaken leaves an old profile in the cache after
\* an invalidation.
THEOREM InvalidationHolds == Spec => []ProfileFresh
<1>1. IInv => ProfileFresh
  BY DEF IInv
<1> QED BY <1>1, Inductive, PTL

\* No login gets the profile of a user that was disabled since before it began.
THEOREM DisabledGetNoProfile == Spec => []NoProfileForDisabled
<1>1. IInv => NoProfileForDisabled
  BY DEF IInv
<1> QED BY <1>1, Inductive, PTL
=============================================================================
