-------------------------- MODULE InstallProxyProofs --------------------------
(***************************************************************************)
(* Theorems about InstallProxy, for every set of requests, URLs, packages  *)
(* and digests, every configuration and every outcome of the disk.         *)
(***************************************************************************)
EXTENDS InstallProxy, FiniteSetTheorems, TLAPS

VerdictRecord == [verdict: Verdict, cause: Cause, quotaPass: BOOLEAN]

Waiting == {"streaming", "judging", "judging-tail", "abandoned", "unopened", "stranded"}
Over == {"done", "stranded"}

(* What TypeOK needs to be inductive, and the promise rests on: a handler  *)
(* past its first lines has a URL, one waiting for bytes or a verdict knows*)
(* its package (and its digest), one that asked the preflight has an entry *)
(* there, and a request has not the whole artifact before its end.         *)
HandlerOK ==
  \A r \in Request :
    /\ pc[r] \notin {"idle", "done"} => url[r] \in Url
    /\ ask[r] # "none" => pc[r] \in {"judging", "judging-tail", "throwing", "done"}
    /\ pc[r] \in Waiting => ident[r] \in Pkg
    /\ pc[r] \in {"judging", "judging-tail"} => body[r] \in Hash
    /\ ask[r] = "preverified" =>
         ident[r] \in DOMAIN Preverified /\ Preverified[ident[r]].scanned # None
    /\ pc[r] \notin Over => sent[r] \in {"nothing", "partial"}

(* A decision is taken at the end; before it, only by a handler about to   *)
(* be caught, whose decision was to hand over and came from no catch-all.  *)
DecidedLast ==
  \A d \in decisions :
    \/ pc[d.req] \in Over
    \/ pc[d.req] = "throwing" /\ d.action # "block" /\ ~CaughtAll(d)

IInv == TypeOK /\ HandlerOK /\ DecidedLast /\ InflightExact

-------------------------------------------------------------------------------
(* The setting in force is a readable one whatever the file holds.         *)
LEMMA ReadableSetting ==
  ASSUME NEW c \in UserConfig
  PROVE  LoadUserConfigOrDefault(c) \in Setting
BY DEF UserConfig, Corrupt, Setting, LoadUserConfigOrDefault, DefaultSetting, PolicyMode

(* Enforcement answers with a policy action.                               *)
LEMMA EnforceType ==
  ASSUME NEW c \in UserConfig, NEW v \in VerdictRecord
  PROVE  /\ EnforceProtectedInstall(v, c, ForceInstall).action \in PolicyAction
         /\ EnforceProtectedInstall(v, c, ForceInstall).overridden \in BOOLEAN
<1>1. LoadUserConfigOrDefault(c).mode \in PolicyMode
  BY ReadableSetting DEF Setting
<1>2. v.verdict \in PolicyAction
  BY DEF VerdictRecord, Verdict, PolicyAction
<1>3. EvaluatePackagePolicy(v.verdict, LoadUserConfigOrDefault(c).mode) \in PolicyAction
  BY <1>1, <1>2 DEF EvaluatePackagePolicy, PolicyAction, PolicyMode
<1>. QED  BY <1>3 DEF EnforceProtectedInstall, ForceAllowed, PolicyAction

(* Outside mode "off" only a pass verdict is enforced as a pass.           *)
LEMMA PassNeedsPass ==
  ASSUME NEW c \in UserConfig, NEW v \in VerdictRecord,
         EnforceProtectedInstall(v, c, ForceInstall).action = "pass",
         LoadUserConfigOrDefault(c).mode # "off"
  PROVE  v.verdict = "pass"
<1>1. LoadUserConfigOrDefault(c).mode \in PolicyMode
  BY ReadableSetting DEF Setting
<1>2. v.verdict \in {"pass", "warn", "block"}
  BY DEF VerdictRecord, Verdict
<1>3. EvaluatePackagePolicy(v.verdict, LoadUserConfigOrDefault(c).mode) = "pass"
  BY DEF EnforceProtectedInstall
<1>. QED  BY <1>1, <1>2, <1>3 DEF EvaluatePackagePolicy, PolicyMode

-------------------------------------------------------------------------------
(* A scanner answer, or a preflight entry, becomes a well-formed verdict;  *)
(* it is a pass only if no digest contradicts the downloaded bytes.        *)
LEMMA NormalizeOK ==
  ASSUME NEW verdict \in Verdict, NEW cause \in Cause, NEW scanned, NEW h
  PROVE  /\ NormalizeVerdict(verdict, cause, scanned, h) \in VerdictRecord
         /\ NormalizeVerdict(verdict, cause, scanned, h).verdict = "pass"
              => scanned \in {None, h}
         /\ cause # "proxy-setup-failure" =>
              ~CaughtAll(NormalizeVerdict(verdict, cause, scanned, h))
BY DEF NormalizeVerdict, ProxyVerdict, VerdictRecord, Verdict, Cause, CaughtAll

LEMMA PreverifiedOK ==
  ASSUME NEW p \in DOMAIN Preverified, Preverified[p].scanned # None, NEW h
  PROVE  /\ PreverifiedVerdict(p, h) \in VerdictRecord
         /\ Preverified[p].scanned \in Hash \cup {None}
         /\ PreverifiedVerdict(p, h).verdict = "pass" => Preverified[p].scanned = h
         /\ ~CaughtAll(PreverifiedVerdict(p, h))
<1>1. Preverified[p] \in PreverifiedEntry
  BY PreflightData
<1>2. /\ Preverified[p].action \in Verdict /\ Preverified[p].action \in Cause
      /\ Preverified[p].action # "proxy-setup-failure"
  BY <1>1 DEF PreverifiedEntry, Verdict, Cause
<1>3. Preverified[p].scanned \in Hash \cup {None}
  BY <1>1 DEF PreverifiedEntry
<1>. QED  BY <1>2, <1>3, NormalizeOK DEF PreverifiedVerdict

LEMMA ScannedType ==
  ASSUME NEW a \in Answer
  PROVE  ScannedBy(a) \in Hash \cup {None}
BY DEF Answer, ScannedBy

LEMMA ScanTarballOK ==
  ASSUME NEW a \in Answer, NEW h
  PROVE  /\ ScanTarballVerdict(a, h) \in VerdictRecord
         /\ ScanTarballVerdict(a, h).verdict = "pass" => ScannedBy(a) = h
         /\ ~CaughtAll(ScanTarballVerdict(a, h))
<1>1. CASE ~UploadEnabled \/ a.kind # "verdict" \/ a.scanned = None
  BY <1>1 DEF ScanTarballVerdict, ProxyVerdict, VerdictRecord, Verdict, Cause, CaughtAll
<1>2. CASE UploadEnabled /\ a.kind = "verdict" /\ a.scanned # None
  <2>1. a.verdict \in Verdict /\ a.cause \in Cause /\ a.cause # "proxy-setup-failure"
    BY <1>2 DEF Answer, Cause
  <2>2. ScanTarballVerdict(a, h) = NormalizeVerdict(a.verdict, a.cause, a.scanned, h)
    BY <1>2 DEF ScanTarballVerdict
  <2>. QED  BY <1>2, <2>1, <2>2, NormalizeOK DEF ScannedBy
<1>. QED  BY <1>1, <1>2, Options

LEMMA InstallOK ==
  ASSUME NEW a \in Answer, NEW h
  PROVE  /\ InstallVerdict(a, h) \in VerdictRecord
         /\ InstallVerdict(a, h).verdict = "pass" => ScannedBy(a) \in {None, h}
         /\ ~CaughtAll(InstallVerdict(a, h))
<1>1. CASE a.kind # "verdict"
  BY <1>1 DEF InstallVerdict, ProxyVerdict, VerdictRecord, Verdict, Cause, Answer, CaughtAll
<1>2. CASE a.kind = "verdict"
  <2>1. a.verdict \in Verdict /\ a.cause \in Cause /\ a.cause # "proxy-setup-failure"
    BY <1>2 DEF Answer, Cause
  <2>2. InstallVerdict(a, h) = NormalizeVerdict(a.verdict, a.cause, a.scanned, h)
    BY <1>2 DEF InstallVerdict
  <2>. QED  BY <1>2, <2>1, <2>2, NormalizeOK DEF ScannedBy
<1>. QED  BY <1>1, <1>2

-------------------------------------------------------------------------------
(* recordDecision adds one well-formed decision about its request, made by *)
(* enforcement from the verdict it was given.                              *)
Judged(d, r, v, scanned) ==
  /\ d.req = r
  /\ d.action = EnforceProtectedInstall(v, config, ForceInstall).action
  /\ d.cause = v.cause
  /\ d.mode = LoadUserConfigOrDefault(config).mode
  /\ d.via = ask[r] /\ d.bytes = body[r] /\ d.scanned = scanned

LEMMA RecordDecisionOK ==
  ASSUME TypeOK, NEW r \in Request, NEW v \in VerdictRecord,
         NEW scanned \in Hash \cup {None}, NEW p \in Pkg \cup {None},
         NEW inf \in [Pkg -> Nat], RecordDecision(r, v, scanned, p, inf)
  PROVE  /\ \E d \in Decision : decisions' = decisions \cup {d} /\ Judged(d, r, v, scanned)
         /\ inflight' = inf
         /\ decisions' \subseteq Decision
         /\ file' \in Snapshot
         /\ held' \subseteq Pkg
         /\ audit' \subseteq Request \X {"install.blocked", "install.force_override"}
<1> DEFINE e == EnforceProtectedInstall(v, config, ForceInstall)
           d == [req |-> r, action |-> e.action, cause |-> v.cause,
                 mode |-> LoadUserConfigOrDefault(config).mode,
                 overridden |-> e.overridden, via |-> ask[r],
                 bytes |-> body[r], scanned |-> scanned]
           event == IF e.overridden THEN {<<r, "install.force_override">>}
                    ELSE IF e.action = "block" THEN {<<r, "install.blocked">>} ELSE {}
           holds == p # None /\ e.action = "block" /\ v.cause = "cooldown"
<1>1. config \in UserConfig
  BY Options DEF TypeOK
<1>2. LoadUserConfigOrDefault(config).mode \in PolicyMode
  BY <1>1, ReadableSetting DEF Setting
<1>3. e.action \in PolicyAction /\ e.overridden \in BOOLEAN
  BY <1>1, EnforceType
<1>4. d \in Decision
  BY <1>2, <1>3 DEF Decision, TypeOK, VerdictRecord
<1>5. /\ decisions' = decisions \cup {d}
      /\ inflight' = inf
      /\ \E ok \in WriteOutcomes :
           file' = IF ok THEN [decisions |-> decisions', inflight |-> inf] ELSE file
      /\ \E ok \in WriteOutcomes : held' = IF holds /\ ok THEN held \cup {p} ELSE held
      /\ \E ok \in WriteOutcomes : audit' = IF ok THEN audit \cup event ELSE audit
  BY DEF RecordDecision, WriteProxyState
<1>6. decisions' \subseteq Decision
  BY <1>4, <1>5 DEF TypeOK
<1>7. file' \in Snapshot
  BY <1>5, <1>6 DEF TypeOK, Snapshot
<1>8. held' \subseteq Pkg
  BY <1>5 DEF TypeOK
<1>9. audit' \subseteq Request \X {"install.blocked", "install.force_override"}
  <2>1. event \subseteq Request \X {"install.blocked", "install.force_override"}
    OBVIOUS
  <2>2. audit' = audit \/ audit' = audit \cup event
    BY <1>5
  <2> HIDE DEF event
  <2>. QED  BY <2>1, <2>2 DEF TypeOK
<1>10. Judged(d, r, v, scanned)
  BY DEF Judged
<1>. QED  BY <1>4, <1>5, <1>6, <1>7, <1>8, <1>9, <1>10

-------------------------------------------------------------------------------
(* The inflight list counts the waiting handlers of a package: nothing, an *)
(* arrival and a departure change it by nothing, one and minus one.        *)
WaitingFor(p) == {r \in Request : ident[r] = p /\ pc[r] \in Waiting}

LEMMA InflightIsWaiting ==
  InflightExact <=> \A p \in Pkg : inflight[p] = Cardinality(WaitingFor(p))
BY DEF InflightExact, WaitingFor, Waiting

LEMMA FiniteWaiting ==
  ASSUME NEW p
  PROVE  IsFiniteSet(WaitingFor(p)) /\ Cardinality(WaitingFor(p)) \in Nat
<1>1. IsFiniteSet(WaitingFor(p))
  BY FinitelyMany, FS_Subset DEF WaitingFor
<1>. QED  BY <1>1, FS_CardinalityType

LEMMA InflightStays ==
  ASSUME InflightExact, UNCHANGED inflight,
         \A q \in Request : /\ pc'[q] \in Waiting <=> pc[q] \in Waiting
                            /\ pc[q] \in Waiting => ident'[q] = ident[q]
  PROVE  InflightExact'
BY DEF InflightExact, Waiting

LEMMA InflightArrival ==
  ASSUME TypeOK, InflightExact, NEW r \in Request, NEW p \in Pkg, NEW where \in Waiting,
         pc[r] \notin Waiting,
         pc' = [pc EXCEPT ![r] = where],
         ident' = [ident EXCEPT ![r] = p],
         inflight' = [inflight EXCEPT ![p] = @ + 1]
  PROVE  InflightExact'
<1> SUFFICES ASSUME NEW q \in Pkg
             PROVE  inflight'[q] = Cardinality(WaitingFor(q)')
  BY DEF InflightExact, WaitingFor, Waiting
<1>1. inflight[q] = Cardinality(WaitingFor(q))
  BY InflightIsWaiting
<1>2. CASE q = p
  <2>1. WaitingFor(q)' = WaitingFor(q) \cup {r} /\ r \notin WaitingFor(q)
    BY <1>2 DEF WaitingFor, TypeOK
  <2>2. Cardinality(WaitingFor(q)') = Cardinality(WaitingFor(q)) + 1
    BY <2>1, FiniteWaiting, FS_AddElement
  <2>. QED  BY <1>1, <1>2, <2>2 DEF TypeOK
<1>3. CASE q # p
  <2>1. WaitingFor(q)' = WaitingFor(q)
    BY <1>3 DEF WaitingFor, TypeOK
  <2>. QED  BY <1>1, <1>3, <2>1 DEF TypeOK
<1>. QED  BY <1>2, <1>3

LEMMA LandedOK ==
  ASSUME TypeOK, InflightExact, NEW r \in Request, pc[r] \in Waiting, ident[r] \in Pkg
  PROVE  Landed(ident[r]) \in [Pkg -> Nat]
<1>1. r \in WaitingFor(ident[r])
  BY DEF WaitingFor
<1>2. Cardinality(WaitingFor(ident[r])) # 0
  BY <1>1, FiniteWaiting, FS_EmptySet
<1>3. inflight[ident[r]] \in Nat /\ inflight[ident[r]] # 0
  BY <1>2, InflightIsWaiting DEF TypeOK
<1>. QED  BY <1>3 DEF Landed, TypeOK

LEMMA InflightDeparture ==
  ASSUME TypeOK, InflightExact, NEW r \in Request, pc[r] \in Waiting, ident[r] \in Pkg,
         NEW where \in {"done", "throwing"}, pc' = [pc EXCEPT ![r] = where],
         UNCHANGED ident,
         inflight' = Landed(ident[r])
  PROVE  InflightExact'
<1> SUFFICES ASSUME NEW q \in Pkg
             PROVE  inflight'[q] = Cardinality(WaitingFor(q)')
  BY DEF InflightExact, WaitingFor, Waiting
<1>1. inflight[q] = Cardinality(WaitingFor(q))
  BY InflightIsWaiting
<1>2. CASE q = ident[r]
  <2>1. WaitingFor(q)' = WaitingFor(q) \ {r} /\ r \in WaitingFor(q)
    BY <1>2 DEF WaitingFor, Waiting, TypeOK
  <2>2. Cardinality(WaitingFor(q)') = Cardinality(WaitingFor(q)) - 1
    BY <2>1, FiniteWaiting, FS_RemoveElement
  <2>. QED  BY <1>1, <1>2, <2>2 DEF TypeOK, Landed
<1>3. CASE q # ident[r]
  <2>1. WaitingFor(q)' = WaitingFor(q)
    BY <1>3 DEF WaitingFor, Waiting, TypeOK
  <2>. QED  BY <1>1, <1>3, <2>1 DEF TypeOK, Landed
<1>. QED  BY <1>2, <1>3

-------------------------------------------------------------------------------
(* A step that records a decision and ends the handler, or throws before   *)
(* what was decided is handed over.                                        *)
LEMMA DecidingStep ==
  ASSUME IInv, NEW r \in Request, NEW v \in VerdictRecord,
         NEW scanned \in Hash \cup {None}, NEW p \in Pkg \cup {None},
         NEW inf \in [Pkg -> Nat], RecordDecision(r, v, scanned, p, inf),
         NEW where \in Over \cup {"throwing"}, pc' = [pc EXCEPT ![r] = where],
         sent' \in [Request -> Sent], \A q \in Request \ {r} : sent'[q] = sent[q],
         UNCHANGED <<config, ident, listed, body, ask, gone, learned>>,
         url' \in [Request -> Url \cup {None}],
         \A q \in Request \ {r} : url'[q] = url[q],
         where = "stranded" => pc[r] \in Waiting /\ ask[r] = "none" /\ url[r] \in Url /\ UNCHANGED url,
         where = "throwing" =>
           /\ pc[r] \notin Over \cup {"throwing"} /\ url[r] \in Url /\ UNCHANGED <<url, sent>>
           /\ EnforceProtectedInstall(v, config, ForceInstall).action # "block"
           /\ ~CaughtAll(v)
  PROVE  TypeOK' /\ HandlerOK' /\ DecidedLast'
<1>1. /\ \E d \in Decision : decisions' = decisions \cup {d} /\ Judged(d, r, v, scanned)
      /\ inflight' = inf
      /\ decisions' \subseteq Decision
      /\ file' \in Snapshot
      /\ held' \subseteq Pkg
      /\ audit' \subseteq Request \X {"install.blocked", "install.force_override"}
  BY RecordDecisionOK DEF IInv
<1>2. pc' \in [Request -> State]
  BY DEF IInv, TypeOK, State, Over
<1>3. TypeOK'
  BY <1>1, <1>2 DEF IInv, TypeOK
<1>4. HandlerOK'
  BY <1>2 DEF IInv, TypeOK, HandlerOK, Waiting, Over
<1>5. DecidedLast'
  <2> SUFFICES ASSUME NEW e \in decisions'
               PROVE  \/ pc'[e.req] \in Over
                      \/ pc'[e.req] = "throwing" /\ e.action # "block" /\ ~CaughtAll(e)
    BY DEF DecidedLast, CaughtAll
  <2>1. e.req \in Request
    BY <1>1 DEF Decision
  <2>2. PICK d \in Decision : decisions' = decisions \cup {d} /\ Judged(d, r, v, scanned)
    BY <1>1
  <2>3. CASE e = d
    BY <2>2, <2>3 DEF Judged, CaughtAll, Over, IInv, TypeOK
  <2>4. CASE e \in decisions
    BY <2>1, <2>4 DEF IInv, TypeOK, DecidedLast, CaughtAll, Over
  <2>. QED  BY <2>2, <2>3, <2>4
<1>. QED  BY <1>3, <1>4, <1>5

(* A block recorded before the artifact was waited for, and the reply.     *)
LEMMA BlockStep ==
  ASSUME IInv, NEW r \in Request, NEW cause \in Cause, pc[r] \notin Waiting,
         RecordDecision(r, ProxyVerdict("block", cause, FALSE), None, None, inflight),
         NEW what \in Sent, Reply(r, what),
         UNCHANGED <<config, ident, listed, body, ask, gone, learned>>,
         url' \in [Request -> Url \cup {None}],
         \A q \in Request \ {r} : url'[q] = url[q]
  PROVE  IInv'
<1> DEFINE v == ProxyVerdict("block", cause, FALSE)
<1>1. v \in VerdictRecord
  BY DEF ProxyVerdict, VerdictRecord, Verdict
<1>2. inflight \in [Pkg -> Nat] /\ "done" \in Over \cup {"throwing"}
  BY DEF IInv, TypeOK, Over
<1>3. pc' = [pc EXCEPT ![r] = "done"]
  BY DEF Reply, LeaveFor
<1>4. sent' \in [Request -> Sent] /\ \A q \in Request \ {r} : sent'[q] = sent[q]
  BY DEF Reply, LeaveFor, IInv, TypeOK
<1> HIDE DEF v
<1>5. TypeOK' /\ HandlerOK' /\ DecidedLast'
  BY <1>1, <1>2, <1>3, <1>4, DecidingStep DEF v
<1>6. UNCHANGED inflight
  BY <1>1, <1>2, RecordDecisionOK DEF IInv, v
<1>7. InflightExact'
  BY <1>3, <1>6, InflightStays DEF IInv, TypeOK, Waiting
<1>. QED  BY <1>5, <1>7 DEF IInv

LEMMA RefuseStep ==
  ASSUME IInv, NEW r \in Request, NEW cause \in Cause, pc[r] \notin Waiting,
         Refuse(r, cause), url' \in [Request -> Url \cup {None}],
         \A q \in Request \ {r} : url'[q] = url[q]
  PROVE  IInv'
BY BlockStep DEF Refuse, Sent

(* A verdict's, or a broken stream's, decision: the artifact has landed.   *)
LEMMA LandingStep ==
  ASSUME IInv, NEW r \in Request, pc[r] \in Waiting \ {"stranded"}, NEW v \in VerdictRecord,
         NEW scanned \in Hash \cup {None}, NEW p \in Pkg \cup {None},
         RecordDecision(r, v, scanned, p, Landed(ident[r])),
         NEW where \in {"done", "throwing"}, pc' = [pc EXCEPT ![r] = where],
         sent' \in [Request -> Sent], \A q \in Request \ {r} : sent'[q] = sent[q],
         where = "throwing" =>
           /\ UNCHANGED sent /\ ~CaughtAll(v)
           /\ EnforceProtectedInstall(v, config, ForceInstall).action # "block",
         UNCHANGED <<config, url, ident, listed, body, ask, gone, learned>>
  PROVE  IInv'
<1>1. ident[r] \in Pkg /\ url[r] \in Url /\ pc[r] \notin Over \cup {"throwing"}
  BY DEF IInv, HandlerOK, Waiting, Over
<1>2. Landed(ident[r]) \in [Pkg -> Nat]
  BY <1>1, LandedOK DEF IInv
<1>3. where \in Over \cup {"throwing"} /\ where # "stranded"
  BY DEF Over
<1>4. TypeOK' /\ HandlerOK' /\ DecidedLast'
  BY <1>1, <1>2, <1>3, DecidingStep DEF IInv, TypeOK
<1>5. inflight' = Landed(ident[r])
  BY <1>2, RecordDecisionOK DEF IInv
<1>6. InflightExact'
  BY <1>1, <1>5, InflightDeparture DEF IInv
<1>. QED  BY <1>4, <1>6 DEF IInv

(* Rewriting proxy.json without a new decision.                            *)
LEMMA WriteOK ==
  ASSUME TypeOK, NEW inf \in [Pkg -> Nat], WriteProxyState(decisions, inf)
  PROVE  file' \in Snapshot
BY DEF WriteProxyState, TypeOK, Snapshot

(* A handler that goes on, or ends, without a decision.                    *)
LEMMA QuietStep ==
  ASSUME IInv, NEW r \in Request, pc[r] \notin Waiting \cup {"done", "throwing"},
         NEW where \in State \ Waiting, pc' = [pc EXCEPT ![r] = where],
         sent' \in [Request -> Sent], \A q \in Request \ {r} : sent'[q] = sent[q],
         where # "done" => UNCHANGED sent /\ url'[r] \in Url,
         url' \in [Request -> Url \cup {None}],
         \A q \in Request \ {r} : url'[q] = url[q],
         learned' \subseteq Url \X Pkg, file' \in Snapshot,
         UNCHANGED <<config, ident, listed, body, ask, gone, decisions, inflight, held, audit>>
  PROVE  IInv'
<1>1. pc' \in [Request -> State]
  BY DEF IInv, TypeOK
<1>2. TypeOK'
  BY <1>1 DEF IInv, TypeOK
<1>3. HandlerOK'
  BY <1>1 DEF IInv, TypeOK, HandlerOK, Waiting, Over
<1>4. DecidedLast'
  BY <1>1 DEF IInv, TypeOK, DecidedLast, Decision, Waiting, Over
<1>5. InflightExact'
  BY <1>1, InflightStays DEF IInv, TypeOK, Waiting
<1>. QED  BY <1>2, <1>3, <1>4, <1>5 DEF IInv

(* An answer the handler gives without a decision.                         *)
LEMMA QuietReply ==
  ASSUME IInv, NEW r \in Request, NEW what \in Sent,
         pc[r] \notin Waiting \cup {"done", "throwing"},
         Reply(r, what), learned' \subseteq Url \X Pkg, file' \in Snapshot,
         UNCHANGED <<config, url, ident, listed, body, ask, gone, decisions, inflight, held, audit>>
  PROVE  IInv'
<1>1. pc' = [pc EXCEPT ![r] = "done"] /\ "done" \in State \ Waiting
  BY DEF Reply, LeaveFor, State, Waiting
<1>2. sent' \in [Request -> Sent] /\ \A q \in Request \ {r} : sent'[q] = sent[q]
  BY DEF Reply, LeaveFor, IInv, TypeOK
<1>. QED  BY <1>1, <1>2, QuietStep DEF IInv, TypeOK

-------------------------------------------------------------------------------
(* Resolving an artifact, and choosing whom to ask about it.               *)
LEMMA ResolveOK ==
  ASSUME NEW u \in Url
  PROVE  Resolve(u) \in Pkg
BY UrlClasses DEF Resolve, Named

LEMMA SourceOK ==
  ASSUME NEW u, NEW p, NEW known \in BOOLEAN
  PROVE  /\ VerdictSource(u, p, known) \in Source \ {"none"}
         /\ VerdictSource(u, p, known) = "preverified" =>
              p \in DOMAIN Preverified /\ Preverified[p].scanned # None
<1>1. CASE ~known /\ u \in PrivateUrl
  BY <1>1 DEF VerdictSource, Source
<1>2. CASE ~(~known /\ u \in PrivateUrl) /\ known /\ TrustPreverified(p)
  BY <1>2 DEF VerdictSource, Source, TrustPreverified
<1>3. CASE ~(~known /\ u \in PrivateUrl) /\ ~(known /\ TrustPreverified(p))
  BY <1>3 DEF VerdictSource, Source
<1>. QED  BY <1>1, <1>2, <1>3

(* The initial state satisfies the inductive invariant.                    *)
LEMMA InitIInv == Init => IInv
<1> SUFFICES ASSUME Init PROVE IInv
  OBVIOUS
<1>1. TypeOK
  BY DEF Init, TypeOK, State, Source, Sent, Snapshot
<1>2. HandlerOK
  BY DEF Init, HandlerOK, Waiting
<1>3. DecidedLast
  BY DEF Init, DecidedLast
<1>4. InflightExact
  <2> SUFFICES ASSUME NEW p \in Pkg PROVE inflight[p] = Cardinality(WaitingFor(p))
    BY InflightIsWaiting
  <2>1. WaitingFor(p) = {}
    BY DEF Init, WaitingFor, Waiting
  <2>. QED  BY <2>1, FS_EmptySet DEF Init
<1>. QED  BY <1>1, <1>2, <1>3, <1>4 DEF IInv

-------------------------------------------------------------------------------
(* Every action of a handler preserves the inductive invariant.            *)
LEMMA ConnectOK ==
  ASSUME IInv, NEW r \in Request, NEW u \in Url, Connect(r, u)
  PROVE  IInv'
<1>0. /\ pc[r] = "idle"
      /\ url' = [url EXCEPT ![r] = u] /\ url' \in [Request -> Url \cup {None}]
      /\ \A q \in Request \ {r} : url'[q] = url[q]
  BY DEF Connect, IInv, TypeOK
<1>1. CASE Refuse(r, "policy")
  BY <1>0, <1>1, RefuseStep DEF Cause, Waiting
<1>2. CASE /\ \E where \in {"secured", "connecting"} : pc' = [pc EXCEPT ![r] = where]
           /\ WriteProxyState(decisions, inflight)
           /\ UNCHANGED <<config, ident, listed, body, ask, gone, sent, learned, decisions,
                          inflight, held, audit>>
  <2>1. file' \in Snapshot
    BY <1>2, WriteOK DEF IInv, TypeOK
  <2>2. PICK where \in {"secured", "connecting"} : pc' = [pc EXCEPT ![r] = where]
    BY <1>2
  <2>3. where \in State \ Waiting /\ url'[r] \in Url
    BY <1>0 DEF State, Waiting, IInv, TypeOK
  <2>. QED  BY <1>0, <1>2, <2>1, <2>2, <2>3, QuietStep DEF IInv, TypeOK, Waiting
<1>. QED  BY <1>1, <1>2 DEF Connect

LEMMA TunnelOK ==
  ASSUME IInv, NEW r \in Request, ConnectUnparsable(r) \/ TunnelOpens(r) \/ TunnelFails(r)
  PROVE  IInv'
<1>1. CASE ConnectUnparsable(r) \/ TunnelOpens(r)
  <2>1. pc[r] \in {"idle", "connecting"} /\ \E what \in Sent : Reply(r, what)
    BY <1>1 DEF ConnectUnparsable, TunnelOpens, Sent
  <2>. QED  BY <1>1, <2>1, QuietReply
            DEF ConnectUnparsable, TunnelOpens, IInv, TypeOK, Waiting
<1>2. CASE TunnelFails(r)
  BY <1>2, BlockStep DEF TunnelFails, Cause, Sent, Waiting, IInv, TypeOK
<1>. QED  BY <1>1, <1>2

LEMMA ReceiveOK ==
  ASSUME IInv, NEW r \in Request, NEW u \in Url, Receive(r, u)
  PROVE  IInv'
<1>0. /\ pc[r] \in {"idle", "secured"}
      /\ url' = [url EXCEPT ![r] = u] /\ url' \in [Request -> Url \cup {None}]
      /\ \A q \in Request \ {r} : url'[q] = url[q]
  BY DEF Receive, IInv, TypeOK
<1>1. CASE Refuse(r, "policy")
  BY <1>0, <1>1, RefuseStep DEF Cause, Waiting
<1>2. CASE /\ pc' = [pc EXCEPT ![r] = IF u \in ViaProxy THEN "dialing" ELSE "fetching"]
           /\ UNCHANGED <<config, ident, listed, body, ask, gone, sent, learned, decisions,
                          inflight, file, held, audit>>
  <2>1. PICK where \in {"dialing", "fetching"} : pc' = [pc EXCEPT ![r] = where]
    BY <1>2
  <2>2. where \in State \ Waiting /\ url'[r] \in Url
    BY <1>0 DEF State, Waiting, IInv, TypeOK
  <2>. QED  BY <1>0, <1>2, <2>1, <2>2, QuietStep DEF IInv, TypeOK, Waiting
<1>. QED  BY <1>1, <1>2 DEF Receive

LEMMA DialingOK ==
  ASSUME IInv, NEW r \in Request, Dialed(r) \/ Redirected(r)
  PROVE  IInv'
<1>1. PICK where \in {"dialing", "fetching"} : pc' = [pc EXCEPT ![r] = where]
  BY DEF Dialed, Redirected
<1>2. pc[r] \in {"dialing", "fetching"} /\ url[r] \in Url
  BY DEF Dialed, Redirected, IInv, HandlerOK
<1>3. where \in State \ Waiting /\ pc[r] \notin Waiting \cup {"done", "throwing"}
  BY <1>2 DEF State, Waiting
<1>4. UNCHANGED <<config, url, ident, listed, body, ask, gone, sent, learned, decisions,
                  inflight, file, held, audit>>
  BY DEF Dialed, Redirected
<1>. QED  BY <1>1, <1>2, <1>3, <1>4, QuietStep DEF IInv, TypeOK

LEMMA FetchArtifactOK ==
  ASSUME IInv, NEW r \in Request, NEW h \in Hash, FetchArtifact(r, h)
  PROVE  IInv'
<1> DEFINE p == Resolve(url[r])
           known == Named(url[r]) # {}
<1>0. pc[r] = "fetching" /\ url[r] \in Url /\ p \in Pkg /\ ask[r] = "none" /\ known \in BOOLEAN
  BY ResolveOK DEF FetchArtifact, IInv, HandlerOK
<1>1. CASE Refuse(r, "policy") /\ UNCHANGED url
  BY <1>0, <1>1, RefuseStep DEF Cause, Waiting, IInv, TypeOK
<1>2. CASE /\ ident' = [ident EXCEPT ![r] = p]
           /\ listed' = [listed EXCEPT ![r] = known]
           /\ BeginVerdict(r, h, p, known, "judging")
           /\ inflight' = [inflight EXCEPT ![p] = @ + 1]
           /\ WriteProxyState(decisions, inflight')
           /\ UNCHANGED <<config, url, gone, sent, learned, decisions, held, audit>>
  <2> HIDE DEF p, known
  <2>1. inflight' \in [Pkg -> Nat]
    BY <1>0, <1>2 DEF IInv, TypeOK
  <2>2. file' \in Snapshot
    BY <1>2, <2>1, WriteOK DEF IInv
  <2>3. /\ body' = [body EXCEPT ![r] = h]
        /\ ask' = [ask EXCEPT ![r] = VerdictSource(url[r], p, known)]
        /\ pc' = [pc EXCEPT ![r] = "judging"]
    BY <1>2 DEF BeginVerdict
  <2>4. TypeOK'
    BY <1>0, <1>2, <2>1, <2>2, <2>3, SourceOK DEF IInv, TypeOK, State
  <2>5. HandlerOK'
    BY <1>0, <1>2, <2>3, SourceOK DEF IInv, TypeOK, HandlerOK, Waiting, Over
  <2>6. DecidedLast'
    BY <1>0, <1>2, <2>3 DEF IInv, TypeOK, DecidedLast, Decision, Over
  <2>7. InflightExact'
    BY <1>0, <1>2, <2>3, InflightArrival DEF IInv, Waiting
  <2>. QED  BY <2>4, <2>5, <2>6, <2>7 DEF IInv
<1>. QED  BY <1>1, <1>2 DEF FetchArtifact

LEMMA StreamStartOK ==
  ASSUME IInv, NEW r \in Request, StreamStart(r)
  PROVE  IInv'
<1> DEFINE p == Resolve(url[r])
           known == Named(url[r]) # {}
<1>0. pc[r] = "fetching" /\ url[r] \in Url /\ p \in Pkg /\ ask[r] = "none" /\ known \in BOOLEAN
  BY ResolveOK DEF StreamStart, IInv, HandlerOK
<1>1. CASE Refuse(r, "policy") /\ UNCHANGED url
  BY <1>0, <1>1, RefuseStep DEF Cause, Waiting, IInv, TypeOK
<1>2. CASE /\ ident' = [ident EXCEPT ![r] = p]
           /\ listed' = [listed EXCEPT ![r] = known]
           /\ inflight' = [inflight EXCEPT ![p] = @ + 1]
           /\ WriteProxyState(decisions, inflight')
           /\ \/ LeaveFor(r, "streaming", "partial")
              \/ pc' = [pc EXCEPT ![r] = "unopened"] /\ UNCHANGED sent
           /\ UNCHANGED <<config, url, body, ask, gone, learned, decisions, held, audit>>
  <2> HIDE DEF p, known
  <2>0. PICK where \in {"streaming", "unopened"} :
          /\ pc' = [pc EXCEPT ![r] = where]
          /\ \/ sent' = [sent EXCEPT ![r] = IF gone[r] THEN @ ELSE "partial"]
             \/ UNCHANGED sent
    BY <1>2 DEF LeaveFor
  <2>1. inflight' \in [Pkg -> Nat]
    BY <1>0, <1>2 DEF IInv, TypeOK
  <2>2. file' \in Snapshot
    BY <1>2, <2>1, WriteOK DEF IInv
  <2>3. TypeOK'
    BY <1>0, <1>2, <2>0, <2>1, <2>2 DEF IInv, TypeOK, State, Sent
  <2>4. HandlerOK'
    BY <1>0, <1>2, <2>0 DEF IInv, TypeOK, HandlerOK, Waiting, Over
  <2>5. DecidedLast'
    BY <1>0, <1>2, <2>0 DEF IInv, TypeOK, DecidedLast, Decision, Over
  <2>6. InflightExact'
    BY <1>0, <1>2, <2>0, InflightArrival DEF IInv, Waiting
  <2>. QED  BY <2>3, <2>4, <2>5, <2>6 DEF IInv
<1>. QED  BY <1>1, <1>2 DEF StreamStart

LEMMA StreamHeadFailsOK ==
  ASSUME IInv, NEW r \in Request, StreamHeadFails(r)
  PROVE  IInv'
<1> DEFINE v == ProxyVerdict("block", "registry-timeout", FALSE)
<1>1. v \in VerdictRecord
  BY DEF ProxyVerdict, VerdictRecord, Verdict, Cause
<1>2. /\ pc[r] = "unopened"
      /\ RecordDecision(r, v, None, None, inflight)
      /\ pc' = [pc EXCEPT ![r] = "stranded"]
      /\ sent' = [sent EXCEPT ![r] = IF gone[r] THEN @ ELSE "refusal"]
      /\ UNCHANGED <<config, url, ident, listed, body, ask, gone, learned>>
  BY DEF StreamHeadFails, LeaveFor
<1> HIDE DEF v
<1>3. /\ pc[r] \in Waiting /\ ask[r] = "none" /\ url[r] \in Url
      /\ inflight \in [Pkg -> Nat] /\ url' \in [Request -> Url \cup {None}]
  BY <1>2 DEF IInv, TypeOK, HandlerOK, Waiting, Source
<1>4. sent' \in [Request -> Sent] /\ \A q \in Request \ {r} : sent'[q] = sent[q] /\ url'[q] = url[q]
  BY <1>2 DEF IInv, TypeOK, Sent
<1>5. "stranded" \in Over \cup {"throwing"} /\ "stranded" # "throwing"
  BY DEF Over
<1>6. TypeOK' /\ HandlerOK' /\ DecidedLast'
  BY <1>1, <1>2, <1>3, <1>4, <1>5, DecidingStep
<1>7. UNCHANGED inflight
  BY <1>1, <1>2, <1>3, RecordDecisionOK DEF IInv
<1>8. InflightExact'
  BY <1>2, <1>7, InflightStays DEF IInv, TypeOK, Waiting
<1>. QED  BY <1>6, <1>8 DEF IInv

LEMMA StreamEndOK ==
  ASSUME IInv, NEW r \in Request, NEW h \in Hash, StreamEnd(r, h)
  PROVE  IInv'
<1>0. pc[r] = "streaming" /\ ident[r] \in Pkg /\ listed[r] \in BOOLEAN
  BY DEF StreamEnd, IInv, HandlerOK, Waiting, TypeOK
<1>1. /\ body' = [body EXCEPT ![r] = h]
      /\ ask' = [ask EXCEPT ![r] = VerdictSource(url[r], ident[r], listed[r])]
      /\ pc' = [pc EXCEPT ![r] = "judging-tail"]
      /\ WriteProxyState(decisions, inflight)
      /\ UNCHANGED <<config, url, ident, listed, gone, sent, learned, decisions, inflight, held, audit>>
  BY DEF StreamEnd, BeginVerdict
<1>2. file' \in Snapshot
  BY <1>1, WriteOK DEF IInv, TypeOK
<1>3. TypeOK'
  BY <1>0, <1>1, <1>2, SourceOK DEF IInv, TypeOK, State
<1>4. HandlerOK'
  BY <1>0, <1>1, SourceOK DEF IInv, TypeOK, HandlerOK, Waiting, Over
<1>5. DecidedLast'
  BY <1>0, <1>1 DEF IInv, TypeOK, DecidedLast, Decision, Over
<1>6. InflightExact'
  BY <1>0, <1>1, InflightStays DEF IInv, TypeOK, Waiting
<1>. QED  BY <1>3, <1>4, <1>5, <1>6 DEF IInv

LEMMA ClientGoneOK ==
  ASSUME IInv, NEW r \in Request, ClientGone(r)
  PROVE  IInv'
<1>1. /\ pc[r] \notin Over
      /\ gone' = [gone EXCEPT ![r] = TRUE]
      /\ \/ pc' = pc
         \/ pc[r] = "streaming" /\ pc' = [pc EXCEPT ![r] = "abandoned"]
      /\ UNCHANGED <<config, url, ident, listed, body, ask, sent, learned, decisions,
                     inflight, file, held, audit>>
  BY DEF ClientGone, Over
<1>2. TypeOK'
  BY <1>1 DEF IInv, TypeOK, State
<1>3. HandlerOK'
  BY <1>1 DEF IInv, TypeOK, HandlerOK, Waiting, Over
<1>4. DecidedLast'
  BY <1>1 DEF IInv, TypeOK, DecidedLast, Decision, Over
<1>5. InflightExact'
  BY <1>1, InflightStays DEF IInv, TypeOK, Waiting
<1>. QED  BY <1>2, <1>3, <1>4, <1>5 DEF IInv

LEMMA PassThroughOK ==
  ASSUME IInv, NEW r \in Request, NEW found \in SUBSET (Url \X Pkg), PassThrough(r, found)
  PROVE  IInv'
<1>1. /\ pc[r] = "fetching" /\ learned' = learned \cup found
      /\ WriteProxyState(decisions, inflight) /\ Forward(r, "passthrough")
      /\ UNCHANGED <<config, url, ident, listed, body, ask, gone, decisions, inflight, held, audit>>
  BY DEF PassThrough
<1>2. file' \in Snapshot
  BY <1>1, WriteOK DEF IInv, TypeOK
<1>3. learned' \subseteq Url \X Pkg
  BY <1>1 DEF IInv, TypeOK
<1>4. pc[r] \notin Waiting \cup {"done", "throwing"} /\ url[r] \in Url
  BY <1>1 DEF Waiting, IInv, HandlerOK
<1>5. CASE Reply(r, "passthrough")
  BY <1>1, <1>2, <1>3, <1>4, <1>5, QuietReply DEF Sent
<1>6. CASE pc' = [pc EXCEPT ![r] = "throwing"] /\ UNCHANGED sent
  <2>1. "throwing" \in State \ Waiting
    BY DEF State, Waiting
  <2>. QED  BY <1>1, <1>2, <1>3, <1>4, <1>6, <2>1, QuietStep DEF IInv, TypeOK
<1>. QED  BY <1>1, <1>5, <1>6 DEF Forward

LEMMA RefusalsOK ==
  ASSUME IInv, NEW r \in Request, NEW c \in Cause,
         ReceiveUnparsable(r) \/ FetchFails(r, c) \/ FetchPartial(r) \/ CatchAll(r)
  PROVE  IInv'
<1>1. UNCHANGED url /\ pc[r] \in {"idle", "dialing", "fetching", "throwing"}
  BY DEF ReceiveUnparsable, FetchFails, FetchPartial, CatchAll
<1>2. Refuse(r, "proxy-setup-failure") \/ Refuse(r, c) \/ Refuse(r, "policy")
  BY DEF ReceiveUnparsable, FetchFails, FetchPartial, CatchAll
<1>. QED  BY <1>1, <1>2, RefuseStep DEF Cause, Waiting, IInv, TypeOK

LEMMA StreamFailsOK ==
  ASSUME IInv, NEW r \in Request, NEW c \in Cause, StreamFails(r, c)
  PROVE  IInv'
<1> DEFINE v == ProxyVerdict("block", c, FALSE)
<1>1. v \in VerdictRecord
  BY DEF ProxyVerdict, VerdictRecord, Verdict
<1>2. /\ pc[r] = "streaming"
      /\ RecordDecision(r, v, None, None, Landed(ident[r]))
      /\ Reply(r, "truncated")
      /\ UNCHANGED <<config, url, ident, listed, body, ask, gone, learned>>
  BY DEF StreamFails
<1> HIDE DEF v
<1>3. /\ pc' = [pc EXCEPT ![r] = "done"] /\ pc[r] \in Waiting \ {"stranded"}
      /\ sent' \in [Request -> Sent] /\ \A q \in Request \ {r} : sent'[q] = sent[q]
  BY <1>2 DEF Reply, LeaveFor, Waiting, Sent, IInv, TypeOK
<1>. QED  BY <1>1, <1>2, <1>3, LandingStep

(* The three ways a verdict comes in, and what each is worth.              *)
Enforced(v) == EnforceProtectedInstall(v, config, ForceInstall)

LEMMA ConcludeCases ==
  ASSUME IInv, NEW r \in Request, Judging(r), NEW v, NEW scanned, Conclude(r, v, scanned)
  PROVE  /\ pc[r] \in Waiting \ {"stranded"} /\ pc[r] \notin Over \cup {"throwing"}
         /\ ident[r] \in Pkg /\ body[r] \in Hash
         /\ \E p \in Pkg \cup {None} : RecordDecision(r, v, scanned, p, Landed(ident[r]))
         /\ UNCHANGED <<config, url, ident, listed, body, ask, gone, learned>>
         /\ \/ \E what \in {"refusal", "truncated", "full"} :
                 Reply(r, what) /\ (what = "full" => Enforced(v).action # "block")
            \/ /\ pc' = [pc EXCEPT ![r] = "throwing"] /\ UNCHANGED sent
               /\ Enforced(v).action # "block"
<1>1. /\ pc[r] \in Waiting \ {"stranded"} /\ pc[r] \notin Over \cup {"throwing"}
      /\ ident[r] \in Pkg /\ body[r] \in Hash
  BY DEF Judging, Waiting, Over, IInv, HandlerOK
<1>2. \E p \in Pkg \cup {None} : RecordDecision(r, v, scanned, p, Landed(ident[r]))
  BY <1>1 DEF Conclude
<1>. QED  BY <1>1, <1>2 DEF Conclude, Forward, Enforced

(* The three ways a verdict comes in, and what each is worth.              *)
LEMMA ConcludeOK ==
  ASSUME IInv, NEW r \in Request, Judging(r), NEW v \in VerdictRecord, ~CaughtAll(v),
         NEW scanned \in Hash \cup {None}, Conclude(r, v, scanned)
  PROVE  IInv'
<1>1. PICK p \in Pkg \cup {None} : RecordDecision(r, v, scanned, p, Landed(ident[r]))
  BY ConcludeCases
<1>2. PICK where \in {"done", "throwing"} :
        /\ pc' = [pc EXCEPT ![r] = where]
        /\ sent' \in [Request -> Sent] /\ \A q \in Request \ {r} : sent'[q] = sent[q]
        /\ where = "throwing" => UNCHANGED sent /\ Enforced(v).action # "block"
  BY ConcludeCases DEF Reply, LeaveFor, Sent, IInv, TypeOK
<1>. QED  BY <1>1, <1>2, ConcludeCases, LandingStep DEF Enforced

Judge(r) == JudgePreverified(r) \/ \E a \in Answer : JudgeScanTarball(r, a) \/ JudgeInstall(r, a)

LEMMA JudgeIsConclude ==
  ASSUME IInv, NEW r \in Request, Judge(r)
  PROVE  /\ Judging(r) /\ body[r] \in Hash
         /\ \E v \in VerdictRecord, scanned \in Hash \cup {None} :
              /\ Conclude(r, v, scanned) /\ ~CaughtAll(v)
              /\ v.verdict = "pass" =>
                   IF ask[r] \in {"preverified", "scan-tarball"}
                     THEN scanned = body[r]
                     ELSE scanned \in {None, body[r]}
<1>1. Judging(r) /\ body[r] \in Hash
  BY DEF Judge, JudgePreverified, JudgeScanTarball, JudgeInstall, Judging, IInv, HandlerOK
<1>2. CASE JudgePreverified(r)
  <2>1. ask[r] = "preverified"
        /\ Conclude(r, PreverifiedVerdict(ident[r], body[r]), Preverified[ident[r]].scanned)
    BY <1>2 DEF JudgePreverified
  <2>2. ident[r] \in DOMAIN Preverified /\ Preverified[ident[r]].scanned # None
    BY <2>1 DEF IInv, HandlerOK
  <2>. QED  BY <1>1, <2>1, <2>2, PreverifiedOK
<1>3. CASE \E a \in Answer : JudgeScanTarball(r, a)
  <2>1. PICK a \in Answer : ask[r] = "scan-tarball"
                            /\ Conclude(r, ScanTarballVerdict(a, body[r]), ScannedBy(a))
    BY <1>3 DEF JudgeScanTarball
  <2>. QED  BY <1>1, <2>1, ScanTarballOK, ScannedType
<1>4. CASE \E a \in Answer : JudgeInstall(r, a)
  <2>1. PICK a \in Answer : ask[r] \in {"verdict", "verdict-cooldown"}
                            /\ Conclude(r, InstallVerdict(a, body[r]), ScannedBy(a))
    BY <1>4 DEF JudgeInstall
  <2>. QED  BY <1>1, <2>1, InstallOK, ScannedType
<1>. QED  BY <1>2, <1>3, <1>4 DEF Judge

LEMMA JudgeOK ==
  ASSUME IInv, NEW r \in Request, Judge(r)
  PROVE  IInv'
BY JudgeIsConclude, ConcludeOK

LEMMA UnauthorizedOK ==
  ASSUME IInv, NEW r \in Request, Unauthorized(r)
  PROVE  IInv'
BY QuietReply DEF Unauthorized, IInv, TypeOK, Waiting, Sent

(* Every action of a handler, by kind.                                     *)
Refusing(r, c) ==
  ReceiveUnparsable(r) \/ FetchFails(r, c) \/ FetchPartial(r) \/ CatchAll(r)

LEMMA HandleCases ==
  ASSUME NEW r \in Request, Handle(r)
  PROVE  \/ Unauthorized(r)
         \/ \E u \in Url : Connect(r, u) \/ Receive(r, u)
         \/ ConnectUnparsable(r) \/ TunnelOpens(r) \/ TunnelFails(r)
         \/ Dialed(r) \/ Redirected(r)
         \/ \E c \in Cause : Refusing(r, c)
         \/ \E c \in Cause : StreamFails(r, c)
         \/ \E found \in SUBSET (Url \X Pkg) : PassThrough(r, found)
         \/ \E h \in Hash : FetchArtifact(r, h) \/ StreamEnd(r, h)
         \/ StreamStart(r) \/ StreamHeadFails(r)
         \/ ClientGone(r)
         \/ Judge(r)
<1>1. "policy" \in Cause
  BY DEF Cause
<1>2. ASSUME NEW found \in SUBSET (Url \X Pkg), FetchMetadata(r, found)
      PROVE  PassThrough(r, found)
  BY <1>2 DEF FetchMetadata
<1>. QED  BY <1>1, <1>2 DEF Handle, FetchError, Judge, Refusing

LEMMA StepIInv == IInv /\ [Next]_vars => IInv'
<1> SUFFICES ASSUME IInv, [Next]_vars PROVE IInv'
  OBVIOUS
<1>1. CASE \E r \in Request : Handle(r)
  <2>1. PICK r \in Request : Handle(r)
    BY <1>1
  <2>2. ASSUME NEW c \in Cause, Refusing(r, c) PROVE IInv'
    BY <2>2, RefusalsOK DEF Refusing
  <2>. QED  BY <2>1, <2>2, HandleCases, UnauthorizedOK, ConnectOK, TunnelOK, ReceiveOK,
               DialingOK, StreamFailsOK, PassThroughOK, FetchArtifactOK, StreamEndOK,
               StreamStartOK, StreamHeadFailsOK, ClientGoneOK, JudgeOK
<1>2. CASE (\E c \in Configs : EditConfig(c)) \/ UNCHANGED vars
  <2>1. config' \in Configs
        /\ UNCHANGED <<pc, url, ident, listed, body, ask, gone, sent, learned, decisions,
                       inflight, file, held, audit>>
    BY <1>2 DEF EditConfig, vars, IInv, TypeOK
  <2>. QED  BY <2>1 DEF IInv, TypeOK, HandlerOK, DecidedLast, InflightExact
<1>. QED  BY <1>1, <1>2 DEF Next

(* Whatever the interleaving, the inductive invariant holds.               *)
THEOREM Invariance == Spec => []IInv
BY InitIInv, StepIInv, PTL DEF Spec

(* The proxy's variables keep their types: in particular no count of       *)
(* artifacts in flight ever goes below zero.                               *)
THEOREM TypeCorrect == Spec => []TypeOK
<1>1. IInv => TypeOK
  BY DEF IInv
<1>. QED  BY Invariance, <1>1, PTL

(* The inflight list holds exactly the artifacts still waited for, in      *)
(* every order downloads, verdicts and broken streams can come.            *)
THEOREM InflightCorrect == Spec => []InflightExact
<1>1. IInv => InflightExact
  BY DEF IInv
<1>. QED  BY Invariance, <1>1, PTL

-------------------------------------------------------------------------------
(* What a step of a handler does to the record of it: it takes a decision, *)
(* with all that recordDecision does, enforces it or throws on the way; or *)
(* it takes none, and what it gives is no answer of the firewall.          *)
Refused == {"refusal", "truncated", "full", "bad-gateway"}
Unjudged == {"passthrough", "tunnel", "unauthorized", "bad-request"}

RestsOnBytes(r, v, scanned) ==
  v.verdict = "pass" =>
    /\ body[r] # None
    /\ IF ask[r] \in {"preverified", "scan-tarball"}
         THEN scanned = body[r] ELSE scanned \in {None, body[r]}

Records(r) ==
  /\ pc[r] \notin Over
  /\ \A q \in Request \ {r} : pc'[q] = pc[q] /\ sent'[q] = sent[q]
  /\ \E v \in VerdictRecord, scanned \in Hash \cup {None}, p \in Pkg \cup {None}, inf \in [Pkg -> Nat] :
       /\ RecordDecision(r, v, scanned, p, inf)
       /\ RestsOnBytes(r, v, scanned)
       /\ \/ /\ pc'[r] \in Over /\ sent'[r] \in Refused \cup {sent[r]}
             /\ sent'[r] = "full" => Enforced(v).action # "block" /\ pc[r] # "throwing"
             /\ pc[r] = "throwing" => CaughtAll(v)
          \/ /\ pc[r] # "throwing" /\ pc'[r] = "throwing" /\ sent'[r] = sent[r]
             /\ Enforced(v).action # "block" /\ ~CaughtAll(v)

Proceeds(r) ==
  /\ pc[r] \notin Over \cup {"throwing"}
  /\ UNCHANGED <<decisions, audit>>
  /\ UNCHANGED <<inflight, file>> \/ WriteProxyState(decisions, inflight')
  /\ \A q \in Request \ {r} : pc'[q] = pc[q] /\ sent'[q] = sent[q]
  /\ sent'[r] \notin Refused

(* A block recorded with the reply that goes with it.                      *)
LEMMA BlockRecords ==
  ASSUME IInv, NEW r \in Request, pc[r] \notin Over, NEW c \in Cause,
         NEW inf \in [Pkg -> Nat], NEW where \in Over, NEW what \in Refused \ {"full"},
         pc[r] = "throwing" => c = "proxy-setup-failure",
         RecordDecision(r, ProxyVerdict("block", c, FALSE), None, None, inf),
         LeaveFor(r, where, what)
  PROVE  Records(r)
<1> DEFINE v == ProxyVerdict("block", c, FALSE)
<1>1. v \in VerdictRecord /\ v.verdict # "pass" /\ v.cause = c
  BY DEF ProxyVerdict, VerdictRecord, Verdict
<1> HIDE DEF v
<1>2. RestsOnBytes(r, v, None) /\ (pc[r] = "throwing" => CaughtAll(v))
  BY <1>1 DEF RestsOnBytes, CaughtAll
<1>3. /\ pc'[r] = where /\ sent'[r] \in {what, sent[r]} /\ sent[r] # "full"
      /\ \A q \in Request \ {r} : pc'[q] = pc[q] /\ sent'[q] = sent[q]
  BY DEF LeaveFor, IInv, TypeOK, HandlerOK
<1>4. RecordDecision(r, v, None, None, inf)
  BY DEF v
<1>. QED  BY <1>1, <1>2, <1>3, <1>4 DEF Records

LEMMA RefuseRecords ==
  ASSUME IInv, NEW r \in Request, pc[r] \notin Over \cup {"throwing"}, NEW c \in Cause,
         Refuse(r, c)
  PROVE  Records(r)
BY BlockRecords DEF Refuse, Reply, Refused, Over, IInv, TypeOK

LEMMA JudgeRecords ==
  ASSUME IInv, NEW r \in Request, Judge(r)
  PROVE  Records(r)
<1>1. PICK v \in VerdictRecord, scanned \in Hash \cup {None} :
        /\ Conclude(r, v, scanned) /\ ~CaughtAll(v) /\ RestsOnBytes(r, v, scanned)
  BY JudgeIsConclude, NoneIsNew DEF RestsOnBytes
<1>2. Judging(r)
  BY JudgeIsConclude
<1>3. /\ pc[r] \in Waiting /\ pc[r] \notin Over \cup {"throwing"} /\ ident[r] \in Pkg
      /\ sent \in [Request -> Sent] /\ sent[r] # "full" /\ pc \in [Request -> State]
  BY <1>1, <1>2, ConcludeCases DEF IInv, TypeOK, HandlerOK
<1>4. Landed(ident[r]) \in [Pkg -> Nat]
  BY <1>3, LandedOK DEF IInv
<1>5. PICK p \in Pkg \cup {None} : RecordDecision(r, v, scanned, p, Landed(ident[r]))
  BY <1>1, <1>2, ConcludeCases
<1>6. CASE \E what \in {"refusal", "truncated", "full"} :
             Reply(r, what) /\ (what = "full" => Enforced(v).action # "block")
  <2>1. PICK what \in {"refusal", "truncated", "full"} :
          Reply(r, what) /\ (what = "full" => Enforced(v).action # "block")
    BY <1>6
  <2>2. /\ \A q \in Request \ {r} : pc'[q] = pc[q] /\ sent'[q] = sent[q]
        /\ pc'[r] = "done" /\ sent'[r] \in {what, sent[r]}
    BY <1>3, <2>1 DEF Reply, LeaveFor
  <2>3. pc'[r] \in Over /\ sent'[r] \in Refused \cup {sent[r]}
    BY <2>2 DEF Over, Refused
  <2>4. sent'[r] = "full" => Enforced(v).action # "block"
    BY <1>3, <2>1, <2>2
  <2>. QED  BY <1>1, <1>3, <1>4, <1>5, <2>2, <2>3, <2>4 DEF Records
<1>7. CASE /\ pc' = [pc EXCEPT ![r] = "throwing"] /\ UNCHANGED sent
           /\ Enforced(v).action # "block"
  <2>1. /\ \A q \in Request \ {r} : pc'[q] = pc[q] /\ sent'[q] = sent[q]
        /\ pc'[r] = "throwing" /\ sent'[r] = sent[r]
    BY <1>3, <1>7
  <2>. QED  BY <1>1, <1>3, <1>4, <1>5, <1>7, <2>1 DEF Records
<1>. QED  BY <1>1, <1>2, <1>6, <1>7, ConcludeCases

LEMMA RecordsOrProceeds ==
  ASSUME IInv, NEW r \in Request, Handle(r)
  PROVE  Records(r) \/ Proceeds(r)
<1>0. /\ sent \in [Request -> Sent] /\ pc \in [Request -> State]
      /\ inflight \in [Pkg -> Nat]
      /\ (pc[r] \notin Over => sent[r] \in {"nothing", "partial"})
  BY DEF IInv, TypeOK, HandlerOK
<1>1. CASE Unauthorized(r)
  BY <1>0, <1>1 DEF Unauthorized, Reply, LeaveFor, Proceeds, Refused, Over
<1>2. ASSUME NEW u \in Url, Connect(r, u) \/ Receive(r, u)
      PROVE  Records(r) \/ Proceeds(r)
  <2>1. pc[r] \notin Over \cup {"throwing"}
    BY <1>2 DEF Connect, Receive, Over
  <2>2. CASE Refuse(r, "policy")
    BY <2>1, <2>2, RefuseRecords DEF Cause
  <2>3. CASE /\ \E where \in State : pc' = [pc EXCEPT ![r] = where]
             /\ UNCHANGED file \/ WriteProxyState(decisions, inflight)
             /\ UNCHANGED <<sent, decisions, inflight, audit>>
    BY <1>0, <2>1, <2>3 DEF Proceeds, Refused
  <2>4. {"secured", "connecting", "dialing", "fetching"} \subseteq State
    BY DEF State
  <2>. QED  BY <1>2, <2>2, <2>3, <2>4 DEF Connect, Receive
<1>3. CASE ConnectUnparsable(r) \/ TunnelOpens(r)
  <2>1. /\ pc[r] \in {"idle", "connecting"} /\ \E what \in Unjudged : Reply(r, what)
        /\ UNCHANGED <<decisions, inflight, file, audit>>
    BY <1>3 DEF ConnectUnparsable, TunnelOpens, Unjudged
  <2>. QED  BY <1>0, <2>1 DEF Reply, LeaveFor, Proceeds, Refused, Unjudged, Over
<1>4. CASE TunnelFails(r)
  <2>1. pc[r] \notin Over \cup {"throwing"} /\ LeaveFor(r, "done", "bad-gateway")
    BY <1>4 DEF TunnelFails, Reply, Over
  <2>. QED  BY <1>0, <1>4, <2>1, BlockRecords DEF TunnelFails, Cause, Over, Refused
<1>5. CASE Dialed(r) \/ Redirected(r)
  BY <1>0, <1>5 DEF Dialed, Redirected, Proceeds, Refused, Over
<1>6. ASSUME NEW c \in Cause, Refusing(r, c)
      PROVE  Records(r)
  <2>1. CASE CatchAll(r)
    BY <1>0, <2>1, BlockRecords DEF CatchAll, Refuse, Reply, Refused, Over, Cause
  <2>2. CASE ~CatchAll(r)
    <3>1. pc[r] \notin Over \cup {"throwing"} /\ \E k \in Cause : Refuse(r, k)
      BY <1>6, <2>2 DEF Refusing, ReceiveUnparsable, FetchFails, FetchPartial, Cause, Over
    <3>. QED  BY <3>1, RefuseRecords
  <2>. QED  BY <2>1, <2>2
<1>7. ASSUME NEW c \in Cause, StreamFails(r, c)
      PROVE  Records(r)
  <2>1. pc[r] \in Waiting /\ ident[r] \in Pkg /\ pc[r] \notin Over \cup {"throwing"}
    BY <1>7 DEF StreamFails, Waiting, Over, IInv, HandlerOK
  <2>2. Landed(ident[r]) \in [Pkg -> Nat]
    BY <2>1, LandedOK DEF IInv
  <2>. QED  BY <1>7, <2>1, <2>2, BlockRecords DEF StreamFails, Reply, Refused, Over
<1>8. ASSUME NEW found \in SUBSET (Url \X Pkg), PassThrough(r, found)
      PROVE  Proceeds(r)
  BY <1>0, <1>8 DEF PassThrough, Forward, Reply, LeaveFor, Proceeds, Refused, Over
<1>9. ASSUME NEW h \in Hash, FetchArtifact(r, h)
      PROVE  Records(r) \/ Proceeds(r)
  <2>1. pc[r] \notin Over \cup {"throwing"}
    BY <1>9 DEF FetchArtifact, Over
  <2>2. CASE Refuse(r, "policy")
    BY <2>1, <2>2, RefuseRecords DEF Cause
  <2>3. CASE /\ pc' = [pc EXCEPT ![r] = "judging"] /\ WriteProxyState(decisions, inflight')
             /\ UNCHANGED <<sent, decisions, audit>>
    BY <1>0, <2>1, <2>3 DEF Proceeds, Refused
  <2>. QED  BY <1>9, <2>2, <2>3 DEF FetchArtifact, BeginVerdict
<1>10. ASSUME NEW h \in Hash, StreamEnd(r, h)
      PROVE  Proceeds(r)
  <2>1. /\ pc[r] = "streaming" /\ pc' = [pc EXCEPT ![r] = "judging-tail"]
        /\ WriteProxyState(decisions, inflight)
        /\ UNCHANGED <<sent, decisions, inflight, audit>>
    BY <1>10 DEF StreamEnd, BeginVerdict
  <2>. QED  BY <1>0, <2>1 DEF Proceeds, Refused, Over
<1>11. CASE StreamStart(r)
  <2>1. pc[r] \notin Over \cup {"throwing"}
    BY <1>11 DEF StreamStart, Over
  <2>2. CASE Refuse(r, "policy")
    BY <2>1, <2>2, RefuseRecords DEF Cause
  <2>3. CASE /\ \/ LeaveFor(r, "streaming", "partial")
                \/ pc' = [pc EXCEPT ![r] = "unopened"] /\ UNCHANGED sent
             /\ WriteProxyState(decisions, inflight')
             /\ UNCHANGED <<decisions, audit>>
    <3>1. /\ \A q \in Request \ {r} : pc'[q] = pc[q] /\ sent'[q] = sent[q]
          /\ sent'[r] \in {"partial", sent[r]}
      BY <1>0, <2>3 DEF LeaveFor
    <3>. QED  BY <1>0, <2>1, <2>3, <3>1 DEF Proceeds, Refused
  <2>. QED  BY <1>11, <2>2, <2>3 DEF StreamStart
<1>12. CASE StreamHeadFails(r)
  <2>1. pc[r] \notin Over \cup {"throwing"}
    BY <1>12 DEF StreamHeadFails, Over
  <2>. QED  BY <1>0, <1>12, <2>1, BlockRecords DEF StreamHeadFails, Cause, Over, Refused
<1>13. CASE ClientGone(r)
  <2>1. /\ pc[r] \notin Over \cup {"throwing"}
        /\ UNCHANGED <<sent, decisions, inflight, file, audit>>
        /\ pc' = pc \/ pc' = [pc EXCEPT ![r] = "abandoned"]
    BY <1>13 DEF ClientGone, Over
  <2>. QED  BY <1>0, <2>1 DEF Proceeds, Refused
<1>14. CASE Judge(r)
  BY <1>14, JudgeRecords
<1>. QED  BY <1>1, <1>2, <1>3, <1>4, <1>5, <1>6, <1>7, <1>8, <1>9, <1>10, <1>11, <1>12,
             <1>13, <1>14, HandleCases

-------------------------------------------------------------------------------
(* The decision a recording step adds, as enforcement made it; one that a  *)
(* client may act on is no block, and a second one comes from a catch-all. *)
LEMMA RecordsADecision ==
  ASSUME IInv, NEW r \in Request, Records(r)
  PROVE  \E d \in Decision :
           /\ decisions' = decisions \cup {d} /\ d.req = r
           /\ sent'[r] = "full" => d.action # "block"
           /\ ScannedIfPassed(d)
           /\ pc[r] = "throwing" => CaughtAll(d)
<1>1. PICK v \in VerdictRecord, scanned \in Hash \cup {None}, p \in Pkg \cup {None}, inf \in [Pkg -> Nat] :
        /\ RecordDecision(r, v, scanned, p, inf)
        /\ RestsOnBytes(r, v, scanned)
        /\ sent'[r] = "full" => Enforced(v).action # "block"
        /\ pc[r] = "throwing" => CaughtAll(v)
  BY DEF Records
<1>2. PICK d \in Decision : decisions' = decisions \cup {d} /\ Judged(d, r, v, scanned)
  BY <1>1, RecordDecisionOK DEF IInv
<1>3. config \in UserConfig
  BY Options DEF IInv, TypeOK
<1>4. d.action = "pass" /\ d.mode # "off" => v.verdict = "pass"
  BY <1>2, <1>3, PassNeedsPass DEF Judged
<1>5. ScannedIfPassed(d)
  BY <1>1, <1>2, <1>4 DEF ScannedIfPassed, Judged, RestsOnBytes
<1>. QED  BY <1>1, <1>2, <1>5 DEF Judged, CaughtAll, Enforced

LEMMA DecisionsStep ==
  ASSUME IInv, [Next]_vars
  PROVE  \/ UNCHANGED <<decisions, pc, sent, inflight, file, audit>>
         \/ \E r \in Request : Records(r) \/ Proceeds(r)
BY RecordsOrProceeds DEF Next, EditConfig, vars

(* A pass rests on the digest of the bytes that came down, for every       *)
(* policy, preflight and answer of the scanner.                            *)
THEOREM PassesWereScanned == Spec => []PassedBytesWereScanned
<1>1. Init => PassedBytesWereScanned
  BY DEF Init, PassedBytesWereScanned
<1>2. IInv /\ PassedBytesWereScanned /\ [Next]_vars => PassedBytesWereScanned'
  <2> SUFFICES ASSUME IInv, PassedBytesWereScanned, [Next]_vars
               PROVE  PassedBytesWereScanned'
    OBVIOUS
  <2>1. UNCHANGED decisions \/ \E r \in Request : Records(r)
    BY DecisionsStep DEF Proceeds
  <2>. QED  BY <2>1, RecordsADecision DEF PassedBytesWereScanned, ScannedIfPassed
<1>. QED  BY <1>1, <1>2, Invariance, PTL DEF Spec

(* The proxy keeps the README's promise: it implements Firewall, so an     *)
(* artifact is handed over in full only together with a decision about it  *)
(* that is not a block, and one that could not be handed over is written   *)
(* off at most.                                                            *)
THEOREM FirewallImplemented == Spec => PromiseKept
<1> DEFINE log == {<<d.req, d.action>> : d \in decisions}
           delivered == {r \in Request : sent[r] = "full"}
<1>1. Init => Promise!Init
  BY DEF Init, Promise!Init
<1>2. IInv /\ [Next]_vars => [Promise!Next]_<<log, delivered>>
  <2> SUFFICES ASSUME IInv, [Next]_vars
               PROVE  Promise!Next \/ UNCHANGED <<log, delivered>>
    OBVIOUS
  <2>1. CASE UNCHANGED <<decisions, pc, sent, inflight, file, audit>>
    BY <2>1
  <2>2. ASSUME NEW r \in Request, Proceeds(r)
        PROVE  UNCHANGED <<log, delivered>>
    BY <2>2 DEF Proceeds, Refused, Over, IInv, HandlerOK
  <2>3. ASSUME NEW r \in Request, Records(r)
        PROVE  Promise!Next \/ UNCHANGED <<log, delivered>>
    <3>1. PICK d \in Decision :
            /\ decisions' = decisions \cup {d} /\ d.req = r
            /\ sent'[r] = "full" => d.action # "block"
      BY <2>3, RecordsADecision
    <3>2. d.action \in Promise!Action
      BY DEF Decision, PolicyAction, Promise!Action
    <3>3. log' = log \cup {<<r, d.action>>}
      BY <3>1
    <3>4. /\ r \notin delivered
          /\ delivered' = delivered \/ (d.action # "block" /\ delivered' = delivered \cup {r})
          /\ pc[r] = "throwing" => delivered' = delivered
      BY <2>3, <3>1 DEF Records, Over, IInv, HandlerOK
    <3>5. CASE \A b \in Promise!Action : <<r, b>> \notin log
      BY <3>2, <3>3, <3>4, <3>5 DEF Promise!Next, Promise!Decide
    <3>6. CASE \E b \in Promise!Action : <<r, b>> \in log
      <4>1. PICK e \in decisions : e.req = r
        BY <3>6
      <4>2. pc[r] = "throwing" /\ e.action # "block"
        BY <2>3, <4>1 DEF Records, IInv, DecidedLast
      <4>3. e.action \in Promise!Action /\ <<r, e.action>> \in log
        BY <4>1 DEF IInv, TypeOK, Decision, PolicyAction, Promise!Action
      <4>. QED  BY <3>2, <3>3, <3>4, <4>2, <4>3 DEF Promise!Next, Promise!Retract
    <3>. QED  BY <3>5, <3>6
  <2>. QED  BY <2>1, <2>2, <2>3, DecisionsStep
<1>. QED  BY <1>1, <1>2, Invariance, PTL DEF Spec, PromiseKept, Promise!Spec

-------------------------------------------------------------------------------
(* The account of one request, and how a step of its handler keeps it.     *)
AccountOf(r) ==
  LET mine == {d \in decisions : d.req = r} IN
  /\ sent[r] \in Refused => mine # {}
  /\ sent[r] \in Unjudged => mine = {}
  /\ pc[r] \notin Over \cup {"throwing"} => mine = {}
  /\ \A d \in mine : sent[r] = "full" => mine = {d} /\ d.action # "block"
  /\ \A d, e \in mine : d # e =>
       \/ CaughtAll(d) /\ ~CaughtAll(e) /\ e.action # "block"
       \/ CaughtAll(e) /\ ~CaughtAll(d) /\ d.action # "block"

LEMMA AccountedIsEach == Accounted <=> \A r \in Request : AccountOf(r)
BY DEF Accounted, AccountOf, Refused, Unjudged, Over

LEMMA AccountStep ==
  ASSUME IInv, NEW r \in Request, AccountOf(r), Records(r)
  PROVE  AccountOf(r)'
<1> DEFINE mine == {d \in decisions : d.req = r}
<1>1. PICK d \in Decision :
        /\ decisions' = decisions \cup {d} /\ d.req = r
        /\ sent'[r] = "full" => d.action # "block"
        /\ pc[r] = "throwing" => CaughtAll(d)
  BY RecordsADecision
<1>2. mine' = mine \cup {d}
  BY <1>1
<1>3. /\ pc[r] \notin Over /\ sent[r] \in {"nothing", "partial"}
      /\ sent'[r] \notin Unjudged /\ pc'[r] \in Over \cup {"throwing"}
      /\ pc[r] = "throwing" => sent'[r] # "full"
  BY DEF Records, Refused, Unjudged, Over, IInv, HandlerOK
<1>4. CASE pc[r] # "throwing"
  <2>1. mine' = {d}
    BY <1>2, <1>3, <1>4 DEF AccountOf
  <2> HIDE DEF mine
  <2>. QED  BY <1>1, <1>3, <2>1 DEF AccountOf, mine
<1>5. CASE pc[r] = "throwing"
  <2>1. \A e \in mine : ~CaughtAll(e) /\ e.action # "block"
    BY <1>5 DEF IInv, DecidedLast, Over
  <2>2. \A e, f \in mine : e = f
    BY <2>1 DEF AccountOf
  <2>3. \A e, f \in mine' : e # f =>
          \/ CaughtAll(e) /\ ~CaughtAll(f) /\ f.action # "block"
          \/ CaughtAll(f) /\ ~CaughtAll(e) /\ e.action # "block"
    BY <1>1, <1>2, <1>5, <2>1, <2>2
  <2>4. mine' # {}
    BY <1>2
  <2> HIDE DEF mine
  <2>. QED  BY <1>3, <1>5, <2>3, <2>4 DEF AccountOf, mine, CaughtAll
<1>. QED  BY <1>4, <1>5

(* A request that is refused, cut short or given its artifact has a        *)
(* decision, one that is passed through has none, none is taken before its *)
(* handler answers, and only a catch-all decides again, what was allowed   *)
(* and not handed over (recordDecision and its callers in server.ts),      *)
(* whatever the order in which handlers interleave.                        *)
THEOREM AllAreAccounted == Spec => []Accounted
<1>1. Init => Accounted
  BY DEF Init, Accounted
<1>2. IInv /\ Accounted /\ [Next]_vars => Accounted'
  <2> SUFFICES ASSUME IInv, Accounted, [Next]_vars, NEW q \in Request
               PROVE  AccountOf(q)'
    BY AccountedIsEach DEF Accounted, AccountOf, Refused, Unjudged, Over
  <2>1. AccountOf(q)
    BY AccountedIsEach
  <2>2. CASE UNCHANGED <<decisions, pc, sent, inflight, file, audit>>
    BY <2>1, <2>2 DEF AccountOf, CaughtAll
  <2>3. ASSUME NEW r \in Request, Proceeds(r)
        PROVE  AccountOf(q)'
    <3>1. CASE q # r
      BY <2>1, <2>3, <3>1 DEF Proceeds, AccountOf, CaughtAll
    <3>2. CASE q = r
      <4>1. {d \in decisions : d.req = q} = {} /\ UNCHANGED decisions /\ sent'[q] \notin Refused
        BY <2>1, <2>3, <3>2 DEF Proceeds, AccountOf
      <4>. QED  BY <4>1 DEF AccountOf, Refused
    <3>. QED  BY <3>1, <3>2
  <2>4. ASSUME NEW r \in Request, Records(r)
        PROVE  AccountOf(q)'
    <3>1. CASE q # r
      <4>1. {d \in decisions' : d.req = q} = {d \in decisions : d.req = q}
        BY <2>4, <3>1, RecordsADecision
      <4>. QED  BY <2>1, <2>4, <3>1, <4>1 DEF Records, AccountOf, CaughtAll
    <3>2. CASE q = r
      BY <2>1, <2>4, <3>2, AccountStep
    <3>. QED  BY <3>1, <3>2
  <2>. QED  BY <2>2, <2>3, <2>4, DecisionsStep
<1>. QED  BY <1>1, <1>2, Invariance, PTL DEF Spec

-------------------------------------------------------------------------------
(* An override is no block, so that one line in the audit log tells all.   *)
LEMMA OverrideIsNoBlock ==
  ASSUME NEW c, NEW v, EnforceProtectedInstall(v, c, ForceInstall).overridden
  PROVE  EnforceProtectedInstall(v, c, ForceInstall).action # "block"
BY DEF EnforceProtectedInstall

LEMMA TruthfulStep ==
  ASSUME IInv, FileTruthful, NEW r \in Request, Handle(r)
  PROVE  FileTruthful'
<1>1. CASE Proceeds(r)
  <2>1. UNCHANGED <<decisions, audit>>
    BY <1>1 DEF Proceeds
  <2>2. CASE UNCHANGED <<inflight, file>>
    BY <2>1, <2>2 DEF FileTruthful
  <2>3. CASE WriteProxyState(decisions, inflight')
    <3>1. PICK ok \in WriteOutcomes :
            file' = IF ok THEN [decisions |-> decisions, inflight |-> inflight'] ELSE file
      BY <2>3 DEF WriteProxyState
    <3>2. file'.decisions \subseteq decisions
      BY <3>1 DEF FileTruthful
    <3>3. WriteOutcomes = {TRUE} => file' = [decisions |-> decisions, inflight |-> inflight']
      BY <3>1
    <3>. QED  BY <2>1, <3>2, <3>3 DEF FileTruthful
  <2>. QED  BY <1>1, <2>2, <2>3 DEF Proceeds
<1>2. CASE Records(r)
  <2>1. PICK v \in VerdictRecord, scanned \in Hash \cup {None}, p \in Pkg \cup {None}, inf \in [Pkg -> Nat] :
          RecordDecision(r, v, scanned, p, inf)
    BY <1>2 DEF Records
  <2> DEFINE e == EnforceProtectedInstall(v, config, ForceInstall)
             d == [req |-> r, action |-> e.action, cause |-> v.cause,
                   mode |-> LoadUserConfigOrDefault(config).mode,
                   overridden |-> e.overridden, via |-> ask[r],
                   bytes |-> body[r], scanned |-> scanned]
             event == IF e.overridden THEN {<<r, "install.force_override">>}
                      ELSE IF e.action = "block" THEN {<<r, "install.blocked">>} ELSE {}
  <2>2. /\ decisions' = decisions \cup {d} /\ inflight' = inf
        /\ \E ok \in WriteOutcomes :
             file' = IF ok THEN [decisions |-> decisions', inflight |-> inf] ELSE file
        /\ \E ok \in WriteOutcomes : audit' = IF ok THEN audit \cup event ELSE audit
    BY <2>1 DEF RecordDecision, WriteProxyState
  <2>3. file'.decisions \subseteq decisions'
    BY <2>2 DEF FileTruthful
  <2>4. ASSUME WriteOutcomes = {TRUE}
        PROVE  /\ file' = [decisions |-> decisions', inflight |-> inflight']
               /\ audit' = audit \cup event
    BY <2>2, <2>4
  <2>5. /\ d.overridden => <<d.req, "install.force_override">> \in event
        /\ d.action = "block" => <<d.req, "install.blocked">> \in event
    BY OverrideIsNoBlock
  <2> HIDE DEF d, event
  <2>. QED  BY <2>2, <2>3, <2>4, <2>5 DEF FileTruthful
<1>. QED  BY <1>1, <1>2, RecordsOrProceeds

(* What proxy.json holds is what the proxy decided, and as long as the     *)
(* disk takes every write, all of it, with a line in the audit log for     *)
(* every block and override (recordDecision, writeProxyState in server.ts).*)
THEOREM FileIsTruthful == Spec => []FileTruthful
<1>1. Init => FileTruthful
  BY DEF Init, FileTruthful
<1>2. IInv /\ FileTruthful /\ [Next]_vars => FileTruthful'
  <2>1. ASSUME FileTruthful, UNCHANGED <<decisions, inflight, file, audit>>
        PROVE  FileTruthful'
    BY <2>1 DEF FileTruthful
  <2>. QED  BY <2>1, TruthfulStep DEF Next, EditConfig, vars
<1>. QED  BY <1>1, <1>2, Invariance, PTL DEF Spec
===============================================================================
