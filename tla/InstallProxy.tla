----------------------------- MODULE InstallProxy -----------------------------
(***************************************************************************)
(* The per-command install proxy (src/src/proxy/server.ts and the modules  *)
(* it calls). A package manager sends requests through it; metadata passes *)
(* through and teaches the proxy which package each artifact URL is;       *)
(* artifacts are downloaded, hashed and judged before they are handed over.*)
(* Every action is a stretch of one request handler between two awaits, so *)
(* handlers of different requests interleave exactly where JavaScript lets *)
(* them.                                                                   *)
(***************************************************************************)
EXTENDS Integers, FiniteSets, Policy

CONSTANTS
  Request,        \* the requests a package manager may send
  Url,            \* what they may ask for
  Pkg,            \* ecosystem:name@version
  Hash,           \* SHA-256 digests of artifact bytes
  LinkLocal,      \* URLs on a link-local or cloud-metadata address
  Unscreened,     \* URLs on a host whose TLS the proxy does not terminate
  ViaProxy,       \* https URLs reached through a corporate proxy (HTTPS_PROXY)
  IndexUrl,       \* registry index URLs (isRegistryIndexRequest)
  PrivateUrl,     \* URLs on a host of DG_PRIVATE_REGISTRY_HOSTS
  Listing,        \* what a registry may list at a URL: <<artifact URL, Pkg>>
  NameInUrl,      \* the Pkg an artifact URL spells (fallbackIdentity)
  Preverified,    \* preverified.json: some packages and their entries
  Exempt,         \* packages exempt from the cooldown
  UploadEnabled,  \* private artifacts may be uploaded for a scan
  ForceInstall,   \* the command was given --dg-force-install
  StreamLarge,    \* DG_STREAM_THRESHOLD_BYTES is set
  Configs,        \* the user configurations that may be found on disk
  WriteOutcomes,  \* {TRUE}: the disk takes every write; BOOLEAN: it may not
  None            \* no URL, no package or no digest yet

PreverifiedEntry == [action: {"pass", "warn"}, scanned: Hash \cup {None},
                     cooldownEvaluated: BOOLEAN]

ASSUME UrlClasses ==
  /\ LinkLocal \subseteq Url /\ Unscreened \subseteq Url /\ ViaProxy \subseteq Url
  /\ IndexUrl \subseteq Url /\ PrivateUrl \subseteq Url
  /\ Listing \in [Url -> SUBSET (Url \X Pkg)]
  /\ NameInUrl \in [Url -> Pkg]
ASSUME PreflightData ==
  /\ DOMAIN Preverified \subseteq Pkg
  /\ \A p \in DOMAIN Preverified : Preverified[p] \in PreverifiedEntry
  /\ Exempt \subseteq Pkg
ASSUME Options ==
  /\ UploadEnabled \in BOOLEAN /\ ForceInstall \in BOOLEAN /\ StreamLarge \in BOOLEAN
  /\ Configs \subseteq UserConfig
  /\ WriteOutcomes \subseteq BOOLEAN /\ WriteOutcomes # {}
ASSUME NoneIsNew == None \notin Url \cup Pkg \cup Hash
ASSUME FinitelyMany == IsFiniteSet(Request)

VARIABLES
  config,     \* the user configuration file, edited by other dg commands
  pc,         \* where each request's handler is
  url,        \* what it asks for
  ident,      \* the package its artifact was resolved to
  listed,     \* the identity comes from registry metadata (sourceKind)
  body,       \* the digest of the bytes downloaded for it
  ask,        \* which verdict source was asked
  gone,       \* the client has closed the connection
  sent,       \* what the client has received
  learned,    \* state.identities: <<artifact URL, Pkg>> read from metadata
  decisions,  \* state.decisions
  inflight,   \* state.inflight, as a count for each package
  file,       \* proxy.json in the session directory, what the launcher reads
  held,       \* the cooldown hold list (cooldown-held.json)
  audit       \* the audit log: <<request, event>>

vars == <<config, pc, url, ident, listed, body, ask, gone, sent, learned, decisions,
          inflight, file, held, audit>>

(* "dialing" waits for the corporate proxy's answer to CONNECT; "unopened"  *)
(* and "throwing" are handlers whose writeHead threw, on the way to their  *)
(* catch; "stranded" is answered, its inflight entry left behind.          *)
State == {"idle", "connecting", "secured", "dialing", "fetching", "streaming", "judging",
          "judging-tail", "unopened", "throwing", "abandoned", "stranded", "done"}
Source == {"none", "scan-tarball", "preverified", "verdict", "verdict-cooldown"}
Sent == {"nothing", "partial", "full", "truncated", "refusal", "passthrough",
         "tunnel", "unauthorized", "bad-request", "bad-gateway"}
Decision == [req: Request, action: PolicyAction, cause: Cause, mode: PolicyMode,
             overridden: BOOLEAN, via: Source, bytes: Hash \cup {None},
             scanned: Hash \cup {None}]
Snapshot == [decisions: SUBSET Decision, inflight: [Pkg -> Nat]]

(* What the scanner may answer. "failed" is a timeout, a broken connection *)
(* or a reply normalizeVerdict rejects: all reach the handler as a throw.  *)
Answer ==
  [kind: {"verdict"}, verdict: Verdict, cause: {"scanner", "cooldown"},
   scanned: Hash \cup {None}]
  \cup [kind: {"quota-pass", "quota-block", "unauthorized", "unavailable", "failed"}]

Init ==
  /\ config \in Configs
  /\ pc = [r \in Request |-> "idle"]
  /\ url = [r \in Request |-> None]
  /\ ident = [r \in Request |-> None]
  /\ listed = [r \in Request |-> FALSE]
  /\ body = [r \in Request |-> None]
  /\ ask = [r \in Request |-> "none"]
  /\ gone = [r \in Request |-> FALSE]
  /\ sent = [r \in Request |-> "nothing"]
  /\ learned = {}
  /\ decisions = {}
  /\ inflight = [p \in Pkg |-> 0]
  /\ file = [decisions |-> {}, inflight |-> [p \in Pkg |-> 0]]
  /\ held = {}
  /\ audit = {}

-------------------------------------------------------------------------------
(* Slip: the file is written from the state before the decision is added.  *)
WriteEarly(ds, inf) == file' = [decisions |-> decisions, inflight |-> inf]

(* writeProxyState: replaces proxy.json by the state in memory; a failed   *)
(* write is swallowed and leaves the previous file.                        *)
WriteProxyState(ds, inf) ==
  \E ok \in WriteOutcomes :
    file' = IF ok THEN [decisions |-> ds, inflight |-> inf] ELSE file

(* recordDecision: enforce, append, persist, then note a cooldown block in *)
(* the hold list when the caller passed the artifact's identity. v is the  *)
(* verdict, scanned the digest it was given for, p the identity or None.   *)
RecordDecision(r, v, scanned, p, inf) ==
  LET e == EnforceProtectedInstall(v, config, ForceInstall)
      d == [req |-> r, action |-> e.action, cause |-> v.cause,
            mode |-> LoadUserConfigOrDefault(config).mode,
            overridden |-> e.overridden, via |-> ask[r],
            bytes |-> body[r], scanned |-> scanned]
      holds == p # None /\ e.action = "block" /\ v.cause = "cooldown"
      event == IF e.overridden THEN {<<r, "install.force_override">>}
               ELSE IF e.action = "block" THEN {<<r, "install.blocked">>} ELSE {}
  IN  /\ decisions' = decisions \cup {d}
      /\ inflight' = inf
      /\ WriteProxyState(decisions', inf)
      /\ \E ok \in WriteOutcomes : held' = IF holds /\ ok THEN held \cup {p} ELSE held
      /\ \E ok \in WriteOutcomes : audit' = IF ok THEN audit \cup event ELSE audit

LeaveFor(r, where, what) ==
  /\ pc' = [pc EXCEPT ![r] = where]
  /\ sent' = [sent EXCEPT ![r] = IF gone[r] THEN @ ELSE what]

Reply(r, what) == LeaveFor(r, "done", what)

(* writeHead with the registry's status and headers, then the body. A      *)
(* status or a header Node refuses throws before anything is sent.         *)
Forward(r, what) ==
  \/ Reply(r, what)
  \/ pc' = [pc EXCEPT ![r] = "throwing"] /\ UNCHANGED sent

(* A refusal before any verdict: the decision is recorded under the user's *)
(* policy, and the client gets a 403 whatever that policy made of it.      *)
Refuse(r, cause) ==
  /\ RecordDecision(r, ProxyVerdict("block", cause, FALSE), None, None, inflight)
  /\ Reply(r, "refusal")
  /\ UNCHANGED <<config, ident, listed, body, ask, gone, learned>>

-------------------------------------------------------------------------------
(* Requests without the session's credential get a 407 and nothing else.   *)
Unauthorized(r) ==
  /\ pc[r] = "idle"
  /\ Reply(r, "unauthorized")
  /\ UNCHANGED <<config, url, ident, listed, body, ask, gone, learned, decisions,
                 inflight, file, held, audit>>

(* handleConnectRequest: a tunnel to a host. Hosts that are not screened   *)
(* are tunnelled blind unless strict egress refuses them; registry hosts   *)
(* get a TLS server of the proxy's own, which serves the request inside,   *)
(* if a certificate can be made for them.                                  *)
Connect(r, u) ==
  /\ pc[r] = "idle"
  /\ url' = [url EXCEPT ![r] = u]
  /\ \/ /\ \/ u \in LinkLocal
           \/ u \in Unscreened /\ LoadUserConfigOrDefault(config).strictEgress
        /\ Refuse(r, "policy")
     \/ /\ u \in Unscreened \ LinkLocal
        /\ ~LoadUserConfigOrDefault(config).strictEgress
        /\ pc' = [pc EXCEPT ![r] = "connecting"]
        /\ WriteProxyState(decisions, inflight)
        /\ UNCHANGED <<config, ident, listed, body, ask, gone, sent, learned, decisions,
                       inflight, held, audit>>
     \/ /\ u \notin LinkLocal \cup Unscreened
        /\ \E where \in {"secured", "connecting"} : pc' = [pc EXCEPT ![r] = where]
        /\ WriteProxyState(decisions, inflight)
        /\ UNCHANGED <<config, ident, listed, body, ask, gone, sent, learned, decisions,
                       inflight, held, audit>>

(* A CONNECT without a host the proxy can read.                            *)
ConnectUnparsable(r) ==
  /\ pc[r] = "idle"
  /\ Reply(r, "bad-request")
  /\ UNCHANGED <<config, url, ident, listed, body, ask, gone, learned, decisions,
                 inflight, file, held, audit>>

TunnelOpens(r) ==
  /\ pc[r] = "connecting"
  /\ url[r] \in Unscreened
  /\ Reply(r, "tunnel")
  /\ UNCHANGED <<config, url, ident, listed, body, ask, gone, learned, decisions,
                 inflight, file, held, audit>>

(* The host cannot be reached, or the certificate not be made: a block is  *)
(* recorded, and the package manager gets a 502.                           *)
TunnelFails(r) ==
  /\ pc[r] = "connecting"
  /\ RecordDecision(r, ProxyVerdict("block", "proxy-setup-failure", FALSE), None, None, inflight)
  /\ Reply(r, "bad-gateway")
  /\ UNCHANGED <<config, url, ident, listed, body, ask, gone, learned>>

(* handleProxyRequest and the head of handleArtifactRequest: a plain       *)
(* request, or one that came through the proxy's TLS server. Conditional   *)
(* and range headers are dropped, so what is fetched is the whole artifact.*)
Receive(r, u) ==
  /\ \/ pc[r] = "idle"
     \/ pc[r] = "secured" /\ u = url[r]
  /\ url' = [url EXCEPT ![r] = u]
  /\ \/ /\ u \in LinkLocal
        /\ Refuse(r, "policy")
     \/ /\ u \notin LinkLocal
        /\ pc' = [pc EXCEPT ![r] = IF u \in ViaProxy THEN "dialing" ELSE "fetching"]
        /\ UNCHANGED <<config, ident, listed, body, ask, gone, sent, learned, decisions,
                       inflight, file, held, audit>>

(* A request without a URL the proxy can fetch.                            *)
ReceiveUnparsable(r) ==
  /\ pc[r] = "idle"
  /\ Refuse(r, "proxy-setup-failure")
  /\ UNCHANGED url

-------------------------------------------------------------------------------
(* connectViaUpstreamProxy: the corporate proxy opens the way. Nothing     *)
(* times its answer; a proxy that closes without one settles nothing.      *)
Dialed(r) ==
  /\ pc[r] = "dialing"
  /\ pc' = [pc EXCEPT ![r] = "fetching"]
  /\ UNCHANGED <<config, url, ident, listed, body, ask, gone, sent, learned, decisions,
                 inflight, file, held, audit>>

(* A redirect may lead to a host behind the corporate proxy; the streaming *)
(* fetch follows its redirects directly.                                   *)
Redirected(r) ==
  /\ pc[r] = "fetching"
  /\ ViaProxy # {} /\ url[r] \in ViaProxy \cup IndexUrl \cup PrivateUrl
  /\ pc' = [pc EXCEPT ![r] = "dialing"]
  /\ UNCHANGED <<config, url, ident, listed, body, ask, gone, sent, learned, decisions,
                 inflight, file, held, audit>>


(* The registry's answer, or none: redirects that loop or leave the public *)
(* network, timeouts, exhausted buffers, a corporate proxy that refuses.   *)
FetchFails(r, cause) ==
  /\ pc[r] \in {"dialing", "fetching"}
  /\ cause \in {"registry-timeout", "proxy-setup-failure"}
  /\ Refuse(r, cause)
  /\ UNCHANGED url

PassThrough(r, found) ==
  /\ pc[r] = "fetching"
  /\ learned' = learned \cup found
  /\ WriteProxyState(decisions, inflight)
  /\ Forward(r, "passthrough")
  /\ UNCHANGED <<config, url, ident, listed, body, ask, gone, decisions, inflight, held, audit>>

(* An index page, or a document that lists artifacts.                      *)
FetchMetadata(r, found) ==
  /\ pc[r] = "fetching"
  /\ found \subseteq Listing[url[r]]
  /\ found # {} \/ url[r] \in IndexUrl
  /\ PassThrough(r, found)

(* A 404 and its like is the registry's answer, not an artifact.           *)
FetchError(r) == PassThrough(r, {})

(* Slip: a partial response is refused without a decision.                 *)
FetchPartialUnrecorded(r) ==
  /\ pc[r] = "fetching"
  /\ url[r] \notin IndexUrl
  /\ Reply(r, "refusal")
  /\ UNCHANGED <<config, url, ident, listed, body, ask, gone, learned, decisions,
                 inflight, file, held, audit>>

FetchPartial(r) ==
  /\ pc[r] = "fetching"
  /\ url[r] \notin IndexUrl
  /\ Refuse(r, "policy")
  /\ UNCHANGED url

(* resolveArtifactIdentity: the packages metadata named for this URL. One  *)
(* is the identity, several are ambiguous, none leaves what the URL spells.*)
Named(u) == {p \in Pkg : <<u, p>> \in learned}
Ambiguous(u) == \E p, q \in Named(u) : p # q
Resolve(u) == IF Named(u) = {} THEN NameInUrl[u] ELSE CHOOSE p \in Named(u) : TRUE

CooldownInForce(p) ==
  config # Corrupt /\ LoadUserConfigOrDefault(config).cooldown /\ p \notin Exempt

TrustPreverified(p) ==
  /\ p \in DOMAIN Preverified
  /\ Preverified[p].cooldownEvaluated \/ ~CooldownInForce(p)
  /\ Preverified[p].scanned # None

(* lookupVerdict up to its first await: which source will be asked.        *)
VerdictSource(u, p, known) ==
  CASE ~known /\ u \in PrivateUrl      -> "scan-tarball"
    [] known /\ TrustPreverified(p)    -> "preverified"
    [] OTHER -> IF CooldownInForce(p) THEN "verdict-cooldown" ELSE "verdict"

BeginVerdict(r, h, p, known, waiting) ==
  /\ body' = [body EXCEPT ![r] = h]
  /\ ask' = [ask EXCEPT ![r] = VerdictSource(url[r], p, known)]
  /\ pc' = [pc EXCEPT ![r] = waiting]

(* The whole artifact is in memory.                                        *)
FetchArtifact(r, h) ==
  LET u == url[r] p == Resolve(u) IN
  /\ pc[r] = "fetching"
  /\ u \notin IndexUrl
  /\ \/ Ambiguous(u) /\ Refuse(r, "policy") /\ UNCHANGED url
     \/ /\ ~Ambiguous(u)
        /\ ident' = [ident EXCEPT ![r] = p]
        /\ listed' = [listed EXCEPT ![r] = Named(u) # {}]
        /\ BeginVerdict(r, h, p, Named(u) # {}, "judging")
        /\ inflight' = [inflight EXCEPT ![p] = @ + 1]
        /\ WriteProxyState(decisions, inflight')
        /\ UNCHANGED <<config, url, gone, sent, learned, decisions, held, audit>>

-------------------------------------------------------------------------------
(* streamArtifactWithTailHold: an artifact too large to buffer is passed   *)
(* on while it is hashed, all but its last 64 KiB. The response may refuse *)
(* the registry's headers, with the artifact already on the inflight list. *)
StreamStart(r) ==
  LET u == url[r] p == Resolve(u) IN
  /\ pc[r] = "fetching"
  /\ StreamLarge /\ u \notin IndexUrl \cup PrivateUrl \cup ViaProxy
  /\ \/ Ambiguous(u) /\ Refuse(r, "policy") /\ UNCHANGED url
     \/ /\ ~Ambiguous(u)
        /\ ident' = [ident EXCEPT ![r] = p]
        /\ listed' = [listed EXCEPT ![r] = Named(u) # {}]
        /\ inflight' = [inflight EXCEPT ![p] = @ + 1]
        /\ WriteProxyState(decisions, inflight')
        /\ \/ LeaveFor(r, "streaming", "partial")
           \/ pc' = [pc EXCEPT ![r] = "unopened"] /\ UNCHANGED sent
        /\ UNCHANGED <<config, url, body, ask, gone, learned, decisions, held, audit>>

(* The catch of handleArtifactRequest takes a writeHead that threw for a   *)
(* failed fetch; the inflight entry stays for the rest of the session.     *)
StreamHeadFails(r) ==
  /\ pc[r] = "unopened"
  /\ RecordDecision(r, ProxyVerdict("block", "registry-timeout", FALSE), None, None, inflight)
  /\ LeaveFor(r, "stranded", "refusal")
  /\ UNCHANGED <<config, url, ident, listed, body, ask, gone, learned>>

(* Slips: an artifact leaves the inflight list twice, or never.            *)
LandedTwice(p) == [inflight EXCEPT ![p] = @ - 2]
LandedNever(p) == inflight

Landed(p) == [inflight EXCEPT ![p] = @ - 1]

(* The download breaks off or overruns its budget: a block is recorded,    *)
(* without the identity, and the connection is cut.                        *)
StreamFails(r, cause) ==
  /\ pc[r] = "streaming"
  /\ cause \in {"registry-timeout", "proxy-setup-failure"}
  /\ RecordDecision(r, ProxyVerdict("block", cause, FALSE), None, None, Landed(ident[r]))
  /\ Reply(r, "truncated")
  /\ UNCHANGED <<config, url, ident, listed, body, ask, gone, learned>>

StreamEnd(r, h) ==
  /\ pc[r] = "streaming"
  /\ BeginVerdict(r, h, ident[r], listed[r], "judging-tail")
  /\ WriteProxyState(decisions, inflight)
  /\ UNCHANGED <<config, url, ident, listed, gone, sent, learned, decisions, inflight, held, audit>>

(* The client closes the connection. A buffered download and a verdict     *)
(* under way carry on; a streamed download is destroyed, which raises an   *)
(* error or, when the runtime reports only the close, nothing the handler  *)
(* waits for.                                                              *)
ClientGone(r) ==
  /\ pc[r] \in {"connecting", "dialing", "fetching", "streaming", "judging", "judging-tail"}
  /\ ~gone[r]
  /\ gone' = [gone EXCEPT ![r] = TRUE]
  /\ \/ pc' = pc
     \/ pc[r] = "streaming" /\ pc' = [pc EXCEPT ![r] = "abandoned"]
  /\ UNCHANGED <<config, url, ident, listed, body, ask, sent, learned, decisions,
                 inflight, file, held, audit>>

-------------------------------------------------------------------------------
(* Slip: the scanner's digest is not compared with the downloaded one.     *)
NormalizeUnchecked(verdict, cause, scanned, h) == ProxyVerdict(verdict, cause, FALSE)

(* normalizeVerdict: a digest the scanner reports must be the digest of    *)
(* the bytes that were downloaded.                                         *)
NormalizeVerdict(verdict, cause, scanned, h) ==
  IF scanned # None /\ scanned # h
    THEN ProxyVerdict("block", "hash-mismatch", FALSE)
    ELSE ProxyVerdict(verdict, cause, FALSE)

(* lookupScanTarballVerdict: the upload needs consent, and an answer that  *)
(* does not name the digest it scanned is no answer.                       *)
ScanTarballVerdict(a, h) ==
  IF ~UploadEnabled
    THEN ProxyVerdict("block", "private-upload-disabled", FALSE)
  ELSE IF a.kind # "verdict" \/ a.scanned = None
    THEN ProxyVerdict("block", "api-timeout", FALSE)
  ELSE NormalizeVerdict(a.verdict, a.cause, a.scanned, h)

InstallVerdict(a, h) ==
  CASE a.kind = "verdict"      -> NormalizeVerdict(a.verdict, a.cause, a.scanned, h)
    [] a.kind = "quota-pass"   -> ProxyVerdict("block", "quota-exceeded", TRUE)
    [] a.kind = "quota-block"  -> ProxyVerdict("block", "quota-exceeded", FALSE)
    [] a.kind = "unauthorized" -> ProxyVerdict("block", "needs-login", FALSE)
    [] a.kind = "unavailable"  -> ProxyVerdict("block", "api-unavailable", FALSE)
    [] OTHER                   -> ProxyVerdict("block", "api-timeout", FALSE)

PreverifiedVerdict(p, h) ==
  LET e == Preverified[p] IN NormalizeVerdict(e.action, e.action, e.scanned, h)

ScannedBy(a) == IF a.kind = "verdict" THEN a.scanned ELSE None

(* Slip: the tail is released whatever was decided.                        *)
ConcludeTailFirst(r, v, scanned) ==
  LET tail == pc[r] = "judging-tail"
      blocked == EnforceProtectedInstall(v, config, ForceInstall).action = "block"
  IN  /\ RecordDecision(r, v, scanned, IF tail THEN None ELSE ident[r], Landed(ident[r]))
      /\ IF blocked /\ ~tail THEN Reply(r, "refusal") ELSE Forward(r, "full")
      /\ UNCHANGED <<config, url, ident, listed, body, ask, gone, learned>>

(* Slip: the reply goes by another reading of the configuration.           *)
ConcludeReadingTwice(r, v, scanned) ==
  LET tail == pc[r] = "judging-tail"
  IN  \E c \in Configs :
        LET blocked == EnforceProtectedInstall(v, c, ForceInstall).action = "block"
        IN  /\ RecordDecision(r, v, scanned, IF tail THEN None ELSE ident[r], Landed(ident[r]))
            /\ \/ blocked /\ Reply(r, IF tail THEN "truncated" ELSE "refusal")
               \/ ~blocked /\ tail /\ Reply(r, "full")
               \/ ~blocked /\ ~tail /\ Forward(r, "full")
            /\ UNCHANGED <<config, url, ident, listed, body, ask, gone, learned>>

(* The verdict is in: the request leaves the inflight list, the decision   *)
(* is recorded, and only then does the client get the artifact (or the     *)
(* withheld tail of it), a 403, or a cut connection. The head of a         *)
(* buffered artifact may be refused, after its decision.                   *)
Conclude(r, v, scanned) ==
  LET tail == pc[r] = "judging-tail"
      blocked == EnforceProtectedInstall(v, config, ForceInstall).action = "block"
  IN  /\ RecordDecision(r, v, scanned, IF tail THEN None ELSE ident[r], Landed(ident[r]))
      /\ \/ blocked /\ Reply(r, IF tail THEN "truncated" ELSE "refusal")
         \/ ~blocked /\ tail /\ Reply(r, "full")
         \/ ~blocked /\ ~tail /\ Forward(r, "full")
      /\ UNCHANGED <<config, url, ident, listed, body, ask, gone, learned>>

Judging(r) == pc[r] \in {"judging", "judging-tail"}

JudgePreverified(r) ==
  /\ Judging(r)
  /\ ask[r] = "preverified"
  /\ Conclude(r, PreverifiedVerdict(ident[r], body[r]), Preverified[ident[r]].scanned)

JudgeScanTarball(r, a) ==
  /\ Judging(r)
  /\ ask[r] = "scan-tarball"
  /\ Conclude(r, ScanTarballVerdict(a, body[r]), ScannedBy(a))

JudgeInstall(r, a) ==
  /\ Judging(r)
  /\ ask[r] \in {"verdict", "verdict-cooldown"}
  /\ Conclude(r, InstallVerdict(a, body[r]), ScannedBy(a))

(* The catch-alls around the handlers: whatever they had recorded, a block *)
(* is recorded now, and the client gets a 403.                             *)
CatchAll(r) ==
  /\ pc[r] = "throwing"
  /\ Refuse(r, "proxy-setup-failure")
  /\ UNCHANGED url

(* Another dg command, or the user's editor, changes the configuration.    *)
EditConfig(c) ==
  /\ config' = c
  /\ UNCHANGED <<pc, url, ident, listed, body, ask, gone, sent, learned, decisions,
                 inflight, file, held, audit>>

Handle(r) ==
  \/ Unauthorized(r)
  \/ \E u \in Url : Connect(r, u) \/ Receive(r, u)
  \/ ConnectUnparsable(r) \/ TunnelOpens(r) \/ TunnelFails(r)
  \/ ReceiveUnparsable(r)
  \/ Dialed(r) \/ Redirected(r)
  \/ \E c \in Cause : FetchFails(r, c) \/ StreamFails(r, c)
  \/ \E found \in SUBSET (Url \X Pkg) : FetchMetadata(r, found)
  \/ FetchError(r) \/ FetchPartial(r)
  \/ \E h \in Hash : FetchArtifact(r, h) \/ StreamEnd(r, h)
  \/ StreamStart(r) \/ StreamHeadFails(r)
  \/ ClientGone(r) \/ CatchAll(r)
  \/ JudgePreverified(r)
  \/ \E a \in Answer : JudgeScanTarball(r, a) \/ JudgeInstall(r, a)

Next == (\E r \in Request : Handle(r)) \/ (\E c \in Configs : EditConfig(c))

Spec == Init /\ [][Next]_vars

(* Fairness: the registry's answer and the verdict have timers (idle and   *)
(* total budgets on the upstream, DG_INSTALL_VERDICT_TIMEOUT_MS), and a    *)
(* promise that was rejected reaches its catch. Nothing is assumed of the  *)
(* waits without a timer, for a corporate proxy and for a tunnel to open,  *)
(* nor of clients and users.                                               *)
Proceed(r) ==
  \/ pc[r] = "fetching" /\ FetchFails(r, "registry-timeout")
  \/ StreamFails(r, "registry-timeout")
  \/ StreamHeadFails(r) \/ CatchAll(r)
  \/ JudgePreverified(r)
  \/ \E a \in Answer : JudgeScanTarball(r, a) \/ JudgeInstall(r, a)

FairSpec == Spec /\ \A r \in Request : WF_vars(Proceed(r))

-------------------------------------------------------------------------------
(* Type invariant.                                                         *)
TypeOK ==
  /\ config \in Configs
  /\ pc \in [Request -> State]
  /\ url \in [Request -> Url \cup {None}]
  /\ ident \in [Request -> Pkg \cup {None}]
  /\ listed \in [Request -> BOOLEAN]
  /\ body \in [Request -> Hash \cup {None}]
  /\ ask \in [Request -> Source]
  /\ gone \in [Request -> BOOLEAN]
  /\ sent \in [Request -> Sent]
  /\ learned \subseteq Url \X Pkg
  /\ decisions \subseteq Decision
  /\ inflight \in [Pkg -> Nat]
  /\ file \in Snapshot
  /\ held \subseteq Pkg
  /\ audit \subseteq Request \X {"install.blocked", "install.force_override"}

(* Every request is accounted for by its decisions: none before its end    *)
(* and none for one that passed through; a refused, truncated or delivered *)
(* one has one, and exactly one that is no block if it was delivered.      *)
(* A second one there is only from a catch-all, after a decision to hand   *)
(* over that could not be carried out (server.ts 102-127, 708-840,         *)
(* 878-886). It fails when a path answers without recording, records while *)
(* the answer is open, or decides again what was delivered or blocked.     *)
CaughtAll(d) == d.cause = "proxy-setup-failure"

Accounted ==
  \A r \in Request :
    LET mine == {d \in decisions : d.req = r} IN
    /\ sent[r] \in {"refusal", "truncated", "full", "bad-gateway"} => mine # {}
    /\ sent[r] \in {"passthrough", "tunnel", "unauthorized", "bad-request"} => mine = {}
    /\ pc[r] \notin {"done", "stranded", "throwing"} => mine = {}
    /\ \A d \in mine : sent[r] = "full" => mine = {d} /\ d.action # "block"
    /\ \A d, e \in mine : d # e =>
         \/ CaughtAll(d) /\ ~CaughtAll(e) /\ e.action # "block"
         \/ CaughtAll(e) /\ ~CaughtAll(d) /\ d.action # "block"

(* The inflight list the launcher's live view counts from holds exactly    *)
(* the artifacts still waited for, package by package, whatever order      *)
(* downloads and verdicts end in, and those whose stream or whose head     *)
(* nobody waits for any more ("abandoned", "stranded": server.ts 445-453,  *)
(* 463-465, 746, 819-828 and removeFirst 1718).                            *)
InflightExact ==
  \A p \in Pkg : inflight[p] = Cardinality({r \in Request :
    /\ ident[r] = p
    /\ pc[r] \in {"streaming", "judging", "judging-tail", "abandoned", "unopened", "stranded"}})

(* A package is let through as clean only for the bytes that came down:    *)
(* outside policy mode "off", a pass decision never rests on a digest that *)
(* differs from the downloaded one, and one that rests on the preflight    *)
(* always has a digest to rest on (server.ts 1435-1504).                   *)
ScannedIfPassed(d) ==
  d.action = "pass" /\ d.mode # "off" =>
    /\ d.bytes # None
    /\ d.scanned \in {None, d.bytes}
    /\ d.via \in {"preverified", "scan-tarball"} => d.scanned = d.bytes
PassedBytesWereScanned == \A d \in decisions : ScannedIfPassed(d)

(* What the launcher will read is what happened: proxy.json never holds a  *)
(* decision the proxy did not take, and when the disk takes every write it *)
(* is never behind at the end of a handler's step, so a delivered artifact *)
(* has its decision on disk by the time the package manager has the bytes, *)
(* and every block or override has left its line in the audit log.         *)
FileTruthful ==
  /\ file.decisions \subseteq decisions
  /\ WriteOutcomes = {TRUE} =>
       /\ file = [decisions |-> decisions, inflight |-> inflight]
       /\ \A d \in decisions :
            /\ d.overridden => <<d.req, "install.force_override">> \in audit
            /\ d.action = "block" => <<d.req, "install.blocked">> \in audit

(* The promise of the README and of Firewall.tla, kept by the proxy.       *)
Promise == INSTANCE Firewall WITH
  log <- {<<d.req, d.action>> : d \in decisions},
  delivered <- {r \in Request : sent[r] = "full"}
PromiseKept == Promise!Spec

(* Every request under way is answered, or left by its client during a     *)
(* streamed download, or waits for the corporate proxy to open a way, the  *)
(* one wait without a timer: no stalled registry or scanner, and no header *)
(* Node refuses, keeps a handler for ever (server.ts 102-110, 746,         *)
(* 1133-1154, 1302-1303).                                                  *)
UnderWay == {"fetching", "streaming", "judging", "judging-tail", "unopened", "throwing"}
===============================================================================
