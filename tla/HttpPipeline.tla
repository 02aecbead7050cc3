---------------------------- MODULE HttpPipeline ----------------------------
(***************************************************************************)
(* The way of an HTTP request through what app.module.ts installs for all  *)
(* routes: TenantThrottlerGuard, AuthGuard, PermissaoGuard; the            *)
(* interceptors of serialization, logging, company context, audit and      *)
(* metrics around the handler; AllExceptionsFilter for what any of them    *)
(* throws.                                                                 *)
(*                                                                         *)
(* Requests of any kind run at once.  They share the counters of the       *)
(* throttler, which are Redis's, and the metrics of the process.  What the *)
(* handler does is left to the other modules: it returns or throws.        *)
(***************************************************************************)
EXTENDS Integers

CONSTANTS
    Requests, Ips, Empresas,
    FREE, PRO,      \* plans
    Tiers,          \* number of named throttlers: short, medium, ...
    FreeLimit,      \* PLANO_LIMITS, taken equal for all tiers
    ProLimit,
    Buckets,        \* number of buckets of the histogram
    None

ASSUME HttpPipelineAssumption ==
    /\ None \notin Empresas \cup Ips
    /\ Tiers \in Nat \ {0} /\ Buckets \in Nat \ {0}
    /\ FreeLimit \in Nat /\ ProLimit \in Nat /\ FREE # PRO

\* Routes with @Public(), with no decorator, with @TemPermissao().
Kinds == {"public", "session", "permission"}

\* HttpExceptions of the guards and of others, the errors of Prisma that the filter
\* knows, anything else.
Errors == {"429", "401", "403", "4xx", "P2002", "P2025", "other"}

Statuses == {"2xx", "429", "401", "403", "4xx", "409", "404", "500"}

VARIABLES
    at,         \* where each request is
    tier,       \* the tier of the throttler that comes next
    ask,        \* route, address, header and token of each request, until it ends
    user,       \* request.user, which the strategy of AuthGuard sets
    ctx,        \* empresaId in contextStorage while the handler runs
    error,      \* what was thrown, until the filter has it
    answer,     \* the status that was sent
    hits,       \* throttler: requests of a handler by tracker and tier
    total,      \* http_requests_total by route and status
    errors,     \* http_request_errors_total
    bucket,     \* http_request_duration_ms: its buckets
    count,      \* and its _count
    audited,    \* requests whose audit event was sent (Outbox)
    \* history
    passed,     \* requests of an address that a tier let pass in its window
    settled,    \* requests whose handler has returned or thrown, by route
    asked       \* requests with a token of a company

metrics == <<total, errors, bucket, count>>
vars == <<at, tier, ask, user, ctx, error, answer, hits, metrics, audited, passed,
          settled, asked>>

\* Of the companies of the JWT, the first, and those with a required permission.
Token == [first : Empresas \cup {None}, grants : SUBSET Empresas]

NoToken == [first |-> None, grants |-> {}]

\* A token is valid (AuthSessions, ReadCaches) or not; a public route ignores it.
\* The header of a request that AuthGuard refuses is not looked at.
Ask == {a \in [kind : Kinds, ip : Ips, header : Empresas \cup {None},
               valid : BOOLEAN, token : Token] :
    /\ a.token.first = None => a.token.grants = {}
    /\ a.kind = "public" => ~a.valid
    /\ ~a.valid => a.token = NoToken
    /\ ~a.valid /\ a.kind # "public" => a.header = None
    /\ a.kind # "permission" => a.token.grants = {}}

ASSUME NoneApart == None \notin Ask \cup Token \cup Errors \cup Statuses \cup {"lost"}

\* Route and status; of the statuses that are not of success, 400 and above.
Labels == Kinds \X {"2xx", "error"}

Keys == Kinds \X (Ips \cup Empresas) \X (1..Tiers)

TypeOK ==
    /\ at \in [Requests -> {"idle", "throttle", "auth", "permissao", "run",
                            "reply", "filter", "end"}]
    /\ tier \in [Requests -> 1..Tiers]
    /\ ask \in [Requests -> Ask \cup {None}]
    /\ user \in [Requests -> Token \cup {None}]
    /\ ctx \in [Requests -> Empresas \cup {None}]
    /\ error \in [Requests -> Errors \cup {None}]
    /\ answer \in [Requests -> Statuses \cup {None, "lost"}]
    /\ hits \in [Keys -> Nat] /\ passed \in [Keys -> Nat]
    /\ total \in [Labels -> Nat] /\ errors \in [Labels -> Nat]
    /\ bucket \in [Labels -> [1..Buckets -> Nat]] /\ count \in [Labels -> Nat]
    /\ audited \subseteq Requests
    /\ settled \in [Kinds -> Nat] /\ asked \in [Empresas -> Nat]

Init ==
    /\ at = [r \in Requests |-> "idle"] /\ tier = [r \in Requests |-> 1]
    /\ ask = [r \in Requests |-> None]
    /\ user = [r \in Requests |-> None] /\ ctx = [r \in Requests |-> None]
    /\ error = [r \in Requests |-> None] /\ answer = [r \in Requests |-> None]
    /\ hits = [k \in Keys |-> 0] /\ passed = [k \in Keys |-> 0]
    /\ total = [l \in Labels |-> 0] /\ errors = [l \in Labels |-> 0]
    /\ bucket = [l \in Labels |-> [b \in 1..Buckets |-> 0]]
    /\ count = [l \in Labels |-> 0]
    /\ audited = {}
    /\ settled = [k \in Kinds |-> 0] /\ asked = [e \in Empresas |-> 0]

Goto(r, s) == at' = [at EXCEPT ![r] = s] /\ UNCHANGED error

Throw(r, e) == at' = [at EXCEPT ![r] = "filter"] /\ error' = [error EXCEPT ![r] = e]

End(r, status) ==
    /\ at' = [at EXCEPT ![r] = "end"]
    /\ answer' = [answer EXCEPT ![r] = status]
    /\ tier' = [tier EXCEPT ![r] = 1]
    /\ ask' = [ask EXCEPT ![r] = None] /\ user' = [user EXCEPT ![r] = None]
    /\ error' = [error EXCEPT ![r] = None]

Public(a) == a.kind = "public"
-----------------------------------------------------------------------------
(* Guards.                                                                 *)

Arrive(r) ==
    /\ at[r] = "idle"
    /\ \E a \in Ask :
         /\ ask' = [ask EXCEPT ![r] = a]
         /\ asked' = [e \in Empresas |-> asked[e] + (IF e = a.token.first THEN 1 ELSE 0)]
    /\ Goto(r, "throttle")
    /\ UNCHANGED <<tier, user, ctx, answer, hits, metrics, audited, passed, settled>>

\* extractEmpresaId: of request.user alone.
TenantOf(r) == IF user[r] = None THEN None ELSE user[r].first

\* Fault: the tenant of the header.
TrackerOfHeader(r) == IF ask[r].header # None THEN ask[r].header ELSE ask[r].ip

\* getTracker.
Tracker(r) == IF TenantOf(r) # None THEN TenantOf(r) ELSE ask[r].ip

\* resolvePlano: whatever PlanoService answers, or FREE without a tenant.
LimitsOf(r) == IF TenantOf(r) = None THEN {FreeLimit} ELSE {FreeLimit, ProLimit}

\* handleRequest, for one tier after the other; the counters are of one handler.
Throttle(r) ==
    /\ at[r] = "throttle"
    /\ LET k == <<ask[r].kind, Tracker(r), tier[r]>>
           own == <<ask[r].kind, ask[r].ip, tier[r]>> IN
       \E limit \in LimitsOf(r) :
         /\ hits' = [hits EXCEPT ![k] = @ + 1]
         /\ IF hits[k] + 1 > limit THEN Throw(r, "429") /\ UNCHANGED <<tier, passed>>
            ELSE /\ Goto(r, IF tier[r] < Tiers THEN "throttle" ELSE "auth")
                 /\ tier' = [tier EXCEPT ![r] = IF @ < Tiers THEN @ + 1 ELSE @]
                 /\ passed' = [passed EXCEPT ![own] = @ + 1]
    /\ UNCHANGED <<ask, user, ctx, answer, metrics, audited, settled, asked>>

\* Redis does not answer; nothing catches the error of the storage.
ThrottleFails(r) ==
    /\ at[r] = "throttle"
    /\ Throw(r, "other")
    /\ UNCHANGED <<tier, ask, user, ctx, answer, hits, metrics, audited, passed, settled, asked>>

\* While there is a request that will be counted.
WindowEnds(k) ==
    /\ hits[k] + passed[k] > 0
    /\ \E r \in Requests : at[r] \in {"idle", "throttle"}
    /\ hits' = [hits EXCEPT ![k] = 0] /\ passed' = [passed EXCEPT ![k] = 0]
    /\ UNCHANGED <<tier, at, ask, user, ctx, error, answer, metrics, audited, settled, asked>>

\* AuthGuard and JwtStrategy.validate.
Authenticate(r) ==
    /\ at[r] = "auth"
    /\ \/ Public(ask[r]) /\ Goto(r, "permissao") /\ UNCHANGED user
       \/ ~Public(ask[r]) /\ ~ask[r].valid /\ Throw(r, "401") /\ UNCHANGED user
       \/ /\ ~Public(ask[r]) /\ ask[r].valid
          /\ user' = [user EXCEPT ![r] = ask[r].token]
          /\ Goto(r, "permissao")
    /\ UNCHANGED <<tier, ask, ctx, answer, hits, metrics, audited, passed, settled, asked>>

\* Fault: any company of the user that has the permission will do.
GrantedAnywhere(r) == user[r] # None /\ ask[r].header # None /\ user[r].grants # {}

\* The profiles of the company of the header have one of the permissions.
Granted(r) == user[r] # None /\ ask[r].header # None /\ ask[r].header \in user[r].grants

\* Fault: the header is taken from anybody.
HeaderOf(r) == ask[r].header

\* EmpresaInterceptor.  JwtStrategy gives the user no empresaId: the header is
\* compared with nothing here, and without it there is no context.
EmpresaOf(r) == IF user[r] # None THEN ask[r].header ELSE None

\* PermissaoGuard, then the interceptors on the way in: nothing is shared.
Authorize(r) ==
    /\ at[r] = "permissao"
    /\ IF ask[r].kind = "permission" /\ ~Granted(r)
       THEN Throw(r, "403") /\ UNCHANGED ctx
       ELSE Goto(r, "run") /\ ctx' = [ctx EXCEPT ![r] = EmpresaOf(r)]
    /\ UNCHANGED <<tier, ask, user, answer, hits, metrics, audited, passed, settled, asked>>
-----------------------------------------------------------------------------
(* Handler, and interceptors on the way out.                               *)

\* Counter.inc.
Inc(counter, l) == [counter EXCEPT ![l] = @ + 1]

\* Fault: the loop over the buckets stops at the first that fits.
InOneBucket(d, counts) == [b \in 1..Buckets |-> IF d = b THEN counts[b] + 1 ELSE counts[b]]

\* Histogram.observe: d is the first bucket that the duration fits in, if it fits
\* in one.
InBuckets(d, counts) == [b \in 1..Buckets |-> IF d <= b THEN counts[b] + 1 ELSE counts[b]]

\* What /metrics shows of the histogram: the bucket +Inf is the count.
Shown(l) == [b \in 1..(Buckets + 1) |-> IF b <= Buckets THEN bucket[l][b] ELSE count[l]]

\* observe.
Observe(l, d) ==
    /\ total' = Inc(total, l)
    /\ bucket' = [bucket EXCEPT ![l] = InBuckets(d, @)]
    /\ count' = Inc(count, l)
    /\ errors' = IF l[2] = "2xx" THEN errors ELSE Inc(errors, l)

\* HttpMetricsInterceptor reads the status of the response, which is that of
\* success when the handler throws too: the filter sets it later.  (The probes and
\* /metrics, public routes that are not measured, are left out.)
Measure(r) == \E d \in 1..(Buckets + 1) : Observe(<<ask[r].kind, "2xx">>, d)

\* The handler returns; routes with @Auditar() are among those with a permission.
Return(r) ==
    /\ at[r] = "run"
    /\ settled' = [settled EXCEPT ![ask[r].kind] = @ + 1]
    /\ Measure(r)
    /\ audited' \in {audited} \cup
         IF ask[r].kind = "permission" THEN {audited \cup {r}} ELSE {}
    /\ ctx' = [ctx EXCEPT ![r] = None]
    /\ Goto(r, "reply")
    /\ UNCHANGED <<tier, ask, user, answer, hits, passed, asked>>

\* Fault: finalize in the place of tap's next.
FailAudited(r) ==
    /\ at[r] = "run"
    /\ settled' = [settled EXCEPT ![ask[r].kind] = @ + 1]
    /\ Measure(r)
    /\ audited' \in {audited} \cup
         IF ask[r].kind = "permission" THEN {audited \cup {r}} ELSE {}
    /\ \E e \in {"4xx", "P2002", "P2025", "other"} : Throw(r, e)
    /\ ctx' = [ctx EXCEPT ![r] = None]
    /\ UNCHANGED <<tier, ask, user, answer, hits, passed, asked>>

\* The pipes or the handler throw: measured, but neither audited nor logged.
Fail(r) ==
    /\ at[r] = "run"
    /\ settled' = [settled EXCEPT ![ask[r].kind] = @ + 1]
    /\ Measure(r)
    /\ \E e \in {"4xx", "P2002", "P2025", "other"} : Throw(r, e)
    /\ ctx' = [ctx EXCEPT ![r] = None]
    /\ UNCHANGED <<tier, ask, user, answer, hits, audited, passed, asked>>

\* ClassSerializerInterceptor is outermost, and may throw after all this.
Reply(r) ==
    /\ at[r] = "reply"
    /\ \/ End(r, "2xx")
       \/ Throw(r, "other") /\ UNCHANGED <<tier, ask, user, answer>>
    /\ UNCHANGED <<ctx, hits, metrics, audited, passed, settled, asked>>
-----------------------------------------------------------------------------
(* AllExceptionsFilter.                                                    *)

StatusOf(e) ==
    CASE e = "P2002" -> "409" [] e = "P2025" -> "404" [] e = "other" -> "500" [] OTHER -> e

\* tryEmergencyReply, which may fail too.
EmergencyReply == {"500", "lost"}

\* The emergency reply is for a httpAdapter.reply that throws.
Filter(r) ==
    /\ at[r] = "filter"
    /\ \E s \in {StatusOf(error[r])} \cup EmergencyReply : End(r, s)
    /\ UNCHANGED <<ctx, hits, metrics, audited, passed, settled, asked>>
-----------------------------------------------------------------------------
AllServed == (\A r \in Requests : at[r] = "end") /\ UNCHANGED vars

Handle(r) ==
    \/ Arrive(r) \/ Throttle(r) \/ ThrottleFails(r) \/ Authenticate(r) \/ Authorize(r)
    \/ Return(r) \/ Fail(r) \/ Reply(r) \/ Filter(r)

Next ==
    \/ \E r \in Requests : Handle(r)
    \/ \E k \in Keys : WindowEnds(k)
    \/ AllServed

Spec == Init /\ [][Next]_vars
-----------------------------------------------------------------------------
(* Properties.                                                             *)

\* The promise that the services, and the extension of the Prisma client, rely on
\* (Cadastro): the handler of a route with a permission runs in the context of the
\* company of the header, in which the token grants that permission.
RunsInCheckedCompany == \A r \in Requests :
    at[r] = "run" /\ ask[r].kind = "permission"
      => /\ ask[r].valid /\ ask[r].header \in ask[r].token.grants
         /\ ctx[r] = ask[r].header

\* Every handler that has returned or thrown is counted once, and the three metrics
\* agree: the histogram counts what the counter counts, its buckets are cumulative,
\* and the errors are the requests with a status of error.
MetricsAgree ==
    /\ \A k \in Kinds : total[<<k, "2xx">>] + total[<<k, "error">>] = settled[k]
    /\ \A l \in Labels :
         /\ count[l] = total[l]
         /\ errors[l] = IF l[2] = "2xx" THEN 0 ELSE total[l]
         /\ \A b \in 1..Buckets : Shown(l)[b] <= Shown(l)[b + 1]

\* From one address, no more requests than FREE allows get to one handler within a
\* window, whatever tokens and headers they carry and however they interleave.
AddressBounded == \A k \in Keys : passed[k] <= FreeLimit

\* An audit event tells of something that was done: its request was answered with
\* success, or failed on the way back.
AuditedDone == \A r \in audited :
    /\ at[r] \in {"reply", "filter", "end"} /\ error[r] \in {None, "other"}
    /\ answer[r] \in {None, "2xx", "500", "lost"}

\* Who stands behind the guards has passed them; there is no context but in the
\* handler, and none without a user.
Staged == \A r \in Requests :
    /\ at[r] \in {"idle", "end"} <=> ask[r] = None
    /\ user[r] # None => ask[r].valid /\ user[r] = ask[r].token
    /\ at[r] \in {"idle", "throttle", "auth"} => user[r] = None
    /\ at[r] \in {"permissao", "run"} => (user[r] = None <=> Public(ask[r]))
    /\ ctx[r] # None => at[r] = "run" /\ user[r] # None
    /\ error[r] # None <=> at[r] = "filter"
    /\ answer[r] # None <=> at[r] = "end"

\* What a tier has let pass, it has counted.
Counted == \A k \in Keys : passed[k] <= hits[k]

IInv == TypeOK /\ Staged /\ Counted

\* usuarios.feature, "Rate limit respeita empresaId do JWT": the counters of two
\* companies are "independentes".  They are not: the guard that counts runs before
\* the one that sets request.user, and counts by address for the plan FREE.
TenantsIndependent == \A r \in Requests :
    error[r] = "429" /\ ask[r].token.first # None
      => asked[ask[r].token.first] > FreeLimit

\* registry.ts: errors are "http_requests_total filtrado por status>=400".  What
\* fails is counted under the status of success.
ErrorsCounted == \A r \in Requests :
    error[r] \in {"4xx", "P2002", "P2025"}
      => \E l \in Labels : errors[l] > 0
=============================================================================
