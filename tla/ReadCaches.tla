----------------------------- MODULE ReadCaches -----------------------------
(***************************************************************************)
(* The three caches of 60 s that requests read before the database:        *)
(*   validity  JwtStrategy: is the user of the token active?               *)
(*   profile   PrismaUsuarioRepository: user, companies, profiles and      *)
(*             permissions, read by login                                  *)
(*   plan      PlanoService: the plan of the company, read by throttling   *)
(* for one user and one company.  Each awaited call to Redis or to the     *)
(* database is a step.  A call to Redis may fail, having taken effect or   *)
(* not.                                                                    *)
(*                                                                         *)
(* A row is the sequence of its versions: what a version holds matters     *)
(* only as far as it makes the user (the company) valid.                   *)
(***************************************************************************)
EXTENDS Integers, Sequences

CONSTANTS
    Reads,      \* requests that read one of the caches
    Writes,     \* requests that change the user or the company
    Nobody,
    Ttl,        \* USER_VALIDITY_CACHE_TTL_MS, CACHE_TTL_MS
    MaxTime     \* bound on the clock

ASSUME ReadCachesAssumption ==
    /\ Nobody \notin Reads
    /\ Ttl \in Nat \ {0}
    /\ MaxTime \in Nat

VARIABLES
    now,        \* a clock that the servers and Redis share
    rows,       \* the versions of the user and of the company
    entry,      \* the caches; version 0 is no entry
    read,       \* how far each read has come, and the version it has read
    write,      \* how far each write has come
    answer,     \* what the last step has answered to its read, if anything
    \* history
    slowest,    \* longest time between the query of a read and its answer
    dropped,    \* version of the user when its profile was last deleted
    overtaken   \* reads that were about to store when the profile was deleted

history == <<slowest, dropped, overtaken>>
vars == <<now, rows, entry, read, write, answer, history>>

Kinds == {"validity", "profile", "plan"}
Tables == {"usuario", "empresa"}
TableOf(k) == IF k = "plan" THEN "empresa" ELSE "usuario"

Version == [valid : BOOLEAN, since : Nat]
Entry == [version : Nat, until : Nat, by : Reads \cup {Nobody}]

\* began is the version that was current when the request began.
Read == [at : {"idle", "get", "find", "findUncached", "set", "done"},
         kind : Kinds, began : Nat, version : Nat, time : Nat]

\* version 0 is an answer that shows no version: null, an error, DEFAULT_PLANO.
Answer == [kind : Kinds, began : Nat, version : Nat]

TypeOK ==
    /\ now \in Nat
    /\ rows \in [Tables -> Seq(Version)]
    /\ entry \in [Kinds -> Entry]
    /\ read \in [Reads -> Read]
    /\ write \in [Writes -> {"idle", "list", "drop", "done"}]
    /\ answer \in Answer
    /\ slowest \in Nat /\ dropped \in Nat
    /\ overtaken \subseteq Reads

NoEntry == [version |-> 0, until |-> 0, by |-> Nobody]
NoAnswer == [kind |-> "validity", began |-> 0, version |-> 0]

\* A read that has not begun, and one that has ended.
AtRest(a) == [at |-> a, kind |-> "validity", began |-> 0, version |-> 0, time |-> 0]

Init ==
    /\ now = 0
    /\ rows = [t \in Tables |-> <<[valid |-> TRUE, since |-> 0]>>]
    /\ entry = [k \in Kinds |-> NoEntry]
    /\ read = [r \in Reads |-> AtRest("idle")]
    /\ write = [w \in Writes |-> "idle"]
    /\ answer = NoAnswer
    /\ slowest = 0 /\ dropped = 0 /\ overtaken = {}

Current(t) == Len(rows[t])
Live(t) == rows[t][Current(t)].valid

\* The request begins with kind k and goes on to step a.
Begin(r, k, a) ==
    /\ read[r].at = "idle"
    /\ read' = [read EXCEPT ![r] = [at |-> a, kind |-> k, began |-> Current(TableOf(k)),
                                    version |-> 0, time |-> 0]]
    /\ answer' = NoAnswer

\* The request begins with kind k, and version v is its answer.
AnswerAtOnce(r, k, v) ==
    /\ read[r].at = "idle"
    /\ read' = [read EXCEPT ![r] = AtRest("done")]
    /\ answer' = [kind |-> k, began |-> Current(TableOf(k)), version |-> v]

AnswerWith(r, v) ==
    /\ read' = [read EXCEPT ![r] = AtRest("done")]
    /\ answer' = [kind |-> read[r].kind, began |-> read[r].began, version |-> v]

\* A request that begins with cache.get.  An entry is the answer, also when it
\* says FALSE; an error is a miss.
GetFirst(r, k) ==
    \/ entry[k].version # 0 /\ AnswerAtOnce(r, k, entry[k].version)
    \/ Begin(r, k, "find")

\* The query has read the current version, which is still to be stored.
Found(r, t) ==
    /\ read' = [read EXCEPT ![r].at = "set", ![r].version = Current(t), ![r].time = now]
    /\ answer' = NoAnswer

unchangedByQuery == <<now, rows, entry, write, history>>
-----------------------------------------------------------------------------
(* JwtStrategy.assertUserStillValid.                                       *)

JwtGet(r) == GetFirst(r, "validity") /\ UNCHANGED unchangedByQuery

\* findOne(userId, true) also finds a user that is disabled; an error is a 500.
JwtFindOne(r) ==
    /\ read[r].at = "find" /\ read[r].kind = "validity"
    /\ Found(r, "usuario") \/ AnswerWith(r, 0)
    /\ UNCHANGED unchangedByQuery

\* Fault: the time to live is given in another unit.
StoreTooLong(r, k) ==
    /\ read[r].at = "set" /\ read[r].kind = k
    /\ \/ entry' = [entry EXCEPT ![k] =
            [version |-> read[r].version, until |-> now + 10 * Ttl, by |-> r]]
       \/ UNCHANGED entry
    /\ slowest' = IF now - read[r].time > slowest THEN now - read[r].time ELSE slowest
    /\ AnswerWith(r, read[r].version)
    /\ UNCHANGED <<now, rows, write, dropped, overtaken>>

\* cache.set reaches Redis or not; the request is answered either way.
Store(r, k) ==
    /\ read[r].at = "set" /\ read[r].kind = k
    /\ \/ entry' = [entry EXCEPT ![k] =
            [version |-> read[r].version, until |-> now + Ttl, by |-> r]]
       \/ UNCHANGED entry
    /\ slowest' = IF now - read[r].time > slowest THEN now - read[r].time ELSE slowest
    /\ AnswerWith(r, read[r].version)
    /\ UNCHANGED <<now, rows, write, dropped, overtaken>>

\* TRUE and FALSE are both stored.
JwtSet(r) == Store(r, "validity")
-----------------------------------------------------------------------------
(* PrismaUsuarioRepository.findByEmailWithPerfisAndPermissoes.             *)

\* findByEmail hides a disabled user.  Without its id there is no cache key.
ProfileLookup(r) ==
    /\ \/ Live("usuario") /\ Begin(r, "profile", "get")
       \/ ~Live("usuario") /\ AnswerAtOnce(r, "profile", 0)
       \/ Begin(r, "profile", "findUncached")
    /\ UNCHANGED unchangedByQuery

ProfileGet(r) ==
    /\ read[r].at = "get" /\ read[r].kind = "profile"
    /\ \/ entry["profile"].version # 0 /\ AnswerWith(r, entry["profile"].version)
       \/ read' = [read EXCEPT ![r].at = "find"] /\ answer' = NoAnswer
    /\ UNCHANGED unchangedByQuery

\* Fault: the query reads past the soft-delete filter.
ProfileFindAny(r) ==
    /\ read[r].at \in {"find", "findUncached"} /\ read[r].kind = "profile"
    /\ \/ read[r].at = "find" /\ Found(r, "usuario")
       \/ read[r].at = "findUncached" /\ AnswerWith(r, Current("usuario"))
       \/ AnswerWith(r, 0)
    /\ UNCHANGED unchangedByQuery

\* Null for a disabled user, and nothing is stored; an error is a 500.
ProfileFind(r) ==
    /\ read[r].at \in {"find", "findUncached"} /\ read[r].kind = "profile"
    /\ \/ Live("usuario") /\ read[r].at = "find" /\ Found(r, "usuario")
       \/ /\ Live("usuario") /\ read[r].at = "findUncached"
          /\ AnswerWith(r, Current("usuario"))
       \/ AnswerWith(r, 0)
    /\ UNCHANGED unchangedByQuery

ProfileSet(r) == Store(r, "profile")
-----------------------------------------------------------------------------
(* PlanoService.getPlanoByEmpresaId, under TenantThrottlerGuard.resolvePlano. *)

PlanoGet(r) == GetFirst(r, "plan") /\ UNCHANGED unchangedByQuery

\* DEFAULT_PLANO, not stored, for a company that is not active and on an error.
PlanoFind(r) ==
    /\ read[r].at = "find" /\ read[r].kind = "plan"
    /\ \/ Live("empresa") /\ Found(r, "empresa")
       \/ AnswerWith(r, 0)
    /\ UNCHANGED unchangedByQuery

PlanoSet(r) == Store(r, "plan")
-----------------------------------------------------------------------------
(* The writes and what they invalidate.                                    *)

\* The transaction commits a new version; the request goes on to step a.
Commit(w, t, valid, a) ==
    /\ write[w] = "idle"
    /\ rows' = [rows EXCEPT ![t] = Append(@, [valid |-> valid, since |-> now])]
    /\ write' = [write EXCEPT ![w] = a]
    /\ answer' = NoAnswer
    /\ UNCHANGED <<now, entry, read, history>>

\* UsuariosService.update.
Disable(w) == Live("usuario") /\ Commit(w, "usuario", FALSE, "drop")
Restore(w) == ~Live("usuario") /\ Commit(w, "usuario", TRUE, "done")
ChangeCredentials(w) == Commit(w, "usuario", Live("usuario"), "drop")

\* PerfisService.update with permissoesIds, for a profile the user holds.
ChangePermissoes(w) == Commit(w, "usuario", Live("usuario"), "list")

\* EmpresasService.addUser and PerfisService.update with ativo, which
\* invalidate nothing.
ChangeMembership(w) == Commit(w, "usuario", Live("usuario"), "done")

\* EmpresasService.update and remove: the cached plan stays.
ChangePlano(w) == Live("empresa") /\ Commit(w, "empresa", TRUE, "done")
RemoveEmpresa(w) == Live("empresa") /\ Commit(w, "empresa", FALSE, "done")

\* findUserIdsByPerfilId: the query fails (or the process stops), or lists the user.
ListUsers(w) ==
    /\ write[w] = "list"
    /\ \E a \in {"drop", "done"} : write' = [write EXCEPT ![w] = a]
    /\ answer' = NoAnswer
    /\ UNCHANGED <<now, rows, entry, read, history>>

\* Fault: the key of another cache is deleted.
DropValidity(w) ==
    /\ write[w] = "drop"
    /\ write' = [write EXCEPT ![w] = "done"]
    /\ entry' = [entry EXCEPT !["validity"] = NoEntry]
    /\ dropped' = Current("usuario")
    /\ overtaken' = overtaken \cup
         {r \in Reads : read[r].at = "set" /\ read[r].kind = "profile"}
    /\ answer' = NoAnswer
    /\ UNCHANGED <<now, rows, read, slowest>>

\* invalidateUserCache.
InvalidateUserCache(w) ==
    /\ write[w] = "drop"
    /\ write' = [write EXCEPT ![w] = "done"]
    /\ entry' = [entry EXCEPT !["profile"] = NoEntry]
    /\ dropped' = Current("usuario")
    /\ overtaken' = overtaken \cup
         {r \in Reads : read[r].at = "set" /\ read[r].kind = "profile"}
    /\ answer' = NoAnswer
    /\ UNCHANGED <<now, rows, read, slowest>>

\* The error is swallowed; so is the invalidation when the process stops.
InvalidateFails(w) ==
    /\ write[w] = "drop"
    /\ write' = [write EXCEPT ![w] = "done"]
    /\ answer' = NoAnswer
    /\ UNCHANGED <<now, rows, entry, read, history>>
-----------------------------------------------------------------------------
(* Redis.                                                                  *)

\* Entries leave the cache when their time is over.  One that Redis has dropped
\* before is a get that misses.
Tick ==
    /\ now < MaxTime
    /\ now' = now + 1
    /\ entry' = [k \in Kinds |-> IF entry[k].until <= now + 1 THEN NoEntry ELSE entry[k]]
    /\ answer' = NoAnswer
    /\ UNCHANGED <<rows, read, write, history>>

AllServed ==
    /\ \A r \in Reads : read[r].at = "done"
    /\ \A w \in Writes : write[w] = "done"
    /\ now = MaxTime
    /\ UNCHANGED vars

ReadStep(r) ==
    \/ JwtGet(r) \/ JwtFindOne(r) \/ JwtSet(r)
    \/ ProfileLookup(r) \/ ProfileGet(r) \/ ProfileFind(r) \/ ProfileSet(r)
    \/ PlanoGet(r) \/ PlanoFind(r) \/ PlanoSet(r)

WriteStep(w) ==
    \/ Disable(w) \/ Restore(w) \/ ChangeCredentials(w) \/ ChangePermissoes(w)
    \/ ChangeMembership(w) \/ ChangePlano(w) \/ RemoveEmpresa(w)
    \/ ListUsers(w) \/ InvalidateUserCache(w) \/ InvalidateFails(w)

Next ==
    \/ \E r \in Reads : ReadStep(r)
    \/ \E w \in Writes : WriteStep(w)
    \/ Tick
    \/ AllServed

Spec == Init /\ [][Next]_vars
-----------------------------------------------------------------------------
(* Properties.                                                             *)

\* Version v of table t was current at some time from `time` on.
CurrentAfter(t, v, time) == v = Current(t) \/ rows[t][v + 1].since >= time

\* An answer is at most Ttl old, plus the time the slowest fill has taken
\* between its query and its answer: the caches never extend an entry they
\* have read, and never store a version under a later time than it was read at
\* by more than that (assertUserStillValid, getPlanoByEmpresaId,
\* findByEmailWithPerfisAndPermissoes).
StaleBounded ==
    answer.version # 0
      => CurrentAfter(TableOf(answer.kind), answer.version, now - Ttl - slowest)

\* After invalidateUserCache has deleted the profile, the cache holds an older
\* one only if its reader had queried before the deletion and stored after it.
ProfileFresh ==
    entry["profile"].version # 0 /\ entry["profile"].version < dropped
      => entry["profile"].by \in overtaken

\* A login gets no profile, cached or not, of a user that was disabled all the
\* time since it began.
NoProfileForDisabled ==
    answer.kind = "profile" /\ answer.version # 0
      => \E v \in answer.began..Current("usuario") : rows["usuario"][v].valid

(* The inductive invariant.                                                *)

\* Versions follow each other in time.
Ordered == \A t \in Tables :
    /\ Len(rows[t]) > 0
    /\ \A v \in 1..Len(rows[t]) : rows[t][v].since <= now
    /\ \A v \in 2..Len(rows[t]) : rows[t][v - 1].since <= rows[t][v].since

\* A cached version was current no longer before its expiry than the bound.
EntriesBounded == \A k \in Kinds : entry[k].version # 0 =>
    /\ entry[k].version \in 1..Current(TableOf(k))
    /\ entry[k].until > now /\ entry[k].until <= now + Ttl
    /\ CurrentAfter(TableOf(k), entry[k].version, entry[k].until - Ttl - slowest)

\* A version that is about to be stored was current when it was read.
ReadsBounded == \A r \in Reads :
    /\ read[r].time <= now
    /\ read[r].at = "set" =>
         /\ read[r].version \in 1..Current(TableOf(read[r].kind))
         /\ CurrentAfter(TableOf(read[r].kind), read[r].version, read[r].time)

\* A read that is about to store an older profile is one that was overtaken.
StoresOvertaken ==
    /\ dropped <= Current("usuario")
    /\ \A r \in Reads :
         read[r].at = "set" /\ read[r].kind = "profile" /\ read[r].version < dropped
           => r \in overtaken

\* A login that looks into the cache has seen the user active.
LookupSawValid == \A r \in Reads :
    read[r].kind = "profile" /\ read[r].at \in {"get", "find", "findUncached", "set"}
      => /\ read[r].began \in 1..Current("usuario")
         /\ read[r].at # "findUncached"
              => \E v \in read[r].began..Current("usuario") : rows["usuario"][v].valid

\* An answer is a version there is.
AnswerKnown == answer.version \in 0..Current(TableOf(answer.kind))

IInv ==
    /\ TypeOK
    /\ Ordered
    /\ EntriesBounded
    /\ ReadsBounded
    /\ StoresOvertaken
    /\ LookupSawValid
    /\ AnswerKnown
    /\ StaleBounded
    /\ ProfileFresh
    /\ NoProfileForDisabled
=============================================================================
