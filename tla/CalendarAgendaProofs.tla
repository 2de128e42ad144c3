------------------------ MODULE CalendarAgendaProofs ------------------------
(***************************************************************************)
(* Connections are never replaced unasked, and an agenda's walk over the   *)
(* pages is bounded, shows only the accounts an operator named, and says   *)
(* complete only when it is: proofs about GoogleAccounts and               *)
(* CalendarAgenda, for any number of accounts, commands, requests, events  *)
(* and pages.                                                              *)
(***************************************************************************)
EXTENDS CalendarAgenda, FiniteSetTheorems, WellFoundedInduction, TLAPS

(* A connect command works for a Google account that was named, and its    *)
(* look at the keychain still holds unless somebody overtook it.           *)
ConnectFits(c) ==
  /\ conn[c].pc \in {"check", "write"} =>
       /\ conn[c].account \in Accounts /\ conn[c].email \in Emails
       /\ conn[c].email \in named[conn[c].account]
  /\ conn[c].pc = "write" =>
       \/ conn[c].replace \/ conn[c].overtaken
       \/ keychain[conn[c].account] = NoMaterial

AccountsInv ==
  /\ AccountsTypeOK
  /\ \A a \in Accounts : EmailsOf(keychain[a]) \subseteq named[a]
  /\ \A c \in Connectors : ConnectFits(c)

Busy(w) == w.pc \in {"resolve", "validate", "credentials", "http"}

(* The pages asked for so far: each once, one per page read.               *)
PagesFit(w) ==
  /\ w.pc \in {"resolve", "validate"} => w.asked = {} /\ w.token = NoToken /\ w.pages = 0
  /\ w.asked \subseteq w.seen \cup {NoToken}
  /\ Busy(w) => w.token \in w.seen \cup {NoToken}
  /\ ~w.repeated
  /\ Cardinality(w.asked) <= w.pages + (IF w.pc = "http" THEN 1 ELSE 0)
  /\ Busy(w) => w.pages < MaxPages
  /\ w.pc = "credentials" => w.token \notin w.asked

(* Whose calendars the walk reads.                                         *)
AccountsFit(w) ==
  /\ Busy(w) \/ w.events # {} => w.account \in Accounts
  /\ Busy(w) => EmailsOf(keychain[w.account]) \subseteq w.connected
  /\ w.pc = "http" => /\ w.material \in Emails /\ w.material \in w.connected
                      /\ w.material \in named[w.account]
  /\ \A e \in w.events : e[1] \in w.connected /\ e[1] \in named[w.account]

(* Up to its token, a walk over one honest calendar has missed nothing     *)
(* that was there all along.                                               *)
EventsFit(w) ==
  /\ w.answer = "200" => w.pc = "done"
  /\ \A m \in Emails : w.steady[m] \subseteq calendar[m]
  /\ \A m \in Emails : honest /\ w.complete /\ w.connected \subseteq {m} =>
       \A p \in w.steady[m] :
         (Busy(w) /\ p <= w.token) \/ w.answer = "200" => <<m, p>> \in w.events

(* The sync command's code and what went wrong belong together.            *)
CodeFits(w) ==
  w.kind = "sync" =>
    (w.answer = "reconnect_required" <=>
       w.trouble \in {"missing", "unparsable", "refresh_rejected", "401"})

WalkFits(w) == PagesFit(w) /\ AccountsFit(w) /\ EventsFit(w) /\ CodeFits(w)

AgendaInv == TypeOK /\ AccountsInv /\ \A r \in Requests : WalkFits(req[r])

-----------------------------------------------------------------------------
(* The connect commands.                                                   *)
Commands == [pc : {"idle", "check", "write", "ended"},
             account : Accounts \cup {"none"}, email : Emails \cup {"nobody"},
             replace : BOOLEAN, overtaken : BOOLEAN]

(* What NeverReplacedUnasked rules out.                                    *)
LostUnasked(a) ==
  /\ keychain[a] # NoMaterial /\ keychain'[a] # keychain[a]
  /\ ~\E c \in Connectors : /\ conn[c].pc = "write" /\ conn[c].account = a
                            /\ conn[c].replace \/ conn[c].overtaken

(* A step of a connect command keeps them in order and replaces material   *)
(* only when asked to or overtaken.                                        *)
LEMMA ConnectKeepsAccounts ==
  ASSUME AccountsInv, ConnectNext
  PROVE  /\ AccountsInv'
         /\ \A a \in Accounts : named[a] \subseteq named'[a]
         /\ \A a \in Accounts : ~LostUnasked(a)
<1>1. /\ keychain \in [Accounts -> Material] /\ conn \in [Connectors -> Commands]
      /\ named \in [Accounts -> SUBSET Emails]
  BY DEF AccountsInv, AccountsTypeOK, Commands
<1>2. /\ \A a \in Accounts : EmailsOf(keychain[a]) \subseteq named[a]
      /\ \A c \in Connectors : ConnectFits(c)
  BY DEF AccountsInv
<1>3. PICK c \in Connectors :
        \/ \E a \in Accounts, expected \in Emails, replace \in BOOLEAN :
             \E grant \in Grants : Connect(c, a, expected, replace, grant)
        \/ CheckExisting(c) \/ StoreMaterial(c) \/ KeychainFails(c)
  BY DEF ConnectNext
<1>4. conn[c] \in Commands
  BY <1>1
<1>5. ASSUME NEW x \in Commands, conn' = [conn EXCEPT ![c] = x], keychain' = keychain,
             named' \in [Accounts -> SUBSET Emails],
             \A a \in Accounts : named[a] \subseteq named'[a],
             x.pc \in {"check", "write"} =>
               x.account \in Accounts /\ x.email \in Emails /\ x.email \in named'[x.account],
             x.pc = "write" => x.replace \/ x.overtaken \/ keychain[x.account] = NoMaterial
      PROVE  AccountsInv'
  <2>1. conn' \in [Connectors -> Commands] /\ conn'[c] = x
        /\ \A d \in Connectors \ {c} : conn'[d] = conn[d]
    BY <1>1, <1>5
  <2>2. AccountsTypeOK'
    BY <1>1, <1>5, <2>1 DEF AccountsTypeOK, Commands
  <2>3. ASSUME NEW d \in Connectors PROVE ConnectFits(d)'
    <3>1. CASE d = c
      BY <1>5, <2>1, <3>1 DEF ConnectFits
    <3>2. CASE d # c
      BY <1>2, <1>5, <2>1, <3>2 DEF ConnectFits
    <3> QED BY <3>1, <3>2
  <2>4. \A a \in Accounts : EmailsOf(keychain'[a]) \subseteq named'[a]
    BY <1>2, <1>5
  <2> QED BY <2>2, <2>3, <2>4 DEF AccountsInv, EmailsOf
<1>6. ASSUME NEW a \in Accounts, NEW expected \in Emails, NEW replace \in BOOLEAN,
             NEW grant \in Grants, Connect(c, a, expected, replace, grant)
      PROVE  AccountsInv' /\ keychain' = keychain /\ \A b \in Accounts : named[b] \subseteq named'[b]
  <2>1. /\ named' = [named EXCEPT ![a] = @ \cup {expected}] /\ keychain' = keychain
        /\ named' \in [Accounts -> SUBSET Emails]
        /\ \A b \in Accounts : named[b] \subseteq named'[b]
        /\ expected \in named'[a]
    BY <1>1, <1>6 DEF Connect
  <2>2. CASE Acceptable(grant, expected)
    <3>1. PICK x : x = [pc |-> "check", account |-> a, email |-> grant.email,
                        replace |-> replace, overtaken |-> FALSE]
      OBVIOUS
    <3>2. conn' = [conn EXCEPT ![c] = x]
      BY <1>6, <2>2, <3>1 DEF Connect
    <3>3. /\ x \in Commands /\ x.pc = "check" /\ x.account = a /\ x.email = expected
      BY <2>2, <3>1 DEF Commands, Acceptable
    <3> QED BY <1>5, <2>1, <3>2, <3>3
  <2>3. CASE ~Acceptable(grant, expected)
    <3>1. PICK x : x = [Unstarted EXCEPT !.pc = "ended"]
      OBVIOUS
    <3>2. conn' = [conn EXCEPT ![c] = x]
      BY <1>6, <2>3, <3>1 DEF Connect
    <3>3. x \in Commands /\ x.pc = "ended"
      BY <3>1 DEF Commands, Unstarted
    <3> QED BY <1>5, <2>1, <3>2, <3>3
  <2> QED BY <2>1, <2>2, <2>3
<1>7. ASSUME Ends(c)
      PROVE  AccountsInv' /\ keychain' = keychain /\ named' = named
  <2>1. PICK x : x = [Unstarted EXCEPT !.pc = "ended"]
    OBVIOUS
  <2>2. conn' = [conn EXCEPT ![c] = x] /\ keychain' = keychain /\ named' = named
    BY <1>7, <2>1 DEF Ends
  <2>3. x \in Commands /\ x.pc = "ended"
    BY <2>1 DEF Commands, Unstarted
  <2> QED BY <1>1, <1>5, <2>2, <2>3
<1>8. ASSUME CheckExisting(c)
      PROVE  AccountsInv' /\ keychain' = keychain /\ named' = named
  <2>1. CASE Ends(c)
    BY <1>7, <2>1
  <2>2. CASE ~Ends(c)
    <3>1. /\ conn[c].pc = "check" /\ keychain' = keychain /\ named' = named
          /\ keychain[conn[c].account] = NoMaterial \/ conn[c].replace
          /\ conn' = [conn EXCEPT ![c].pc = "write"]
      BY <1>8, <2>2 DEF CheckExisting
    <3>2. PICK x : x = [conn[c] EXCEPT !.pc = "write"]
      OBVIOUS
    <3>3. /\ x \in Commands /\ x.pc = "write" /\ x.account = conn[c].account
          /\ x.email = conn[c].email /\ x.replace = conn[c].replace
          /\ conn' = [conn EXCEPT ![c] = x]
      BY <1>1, <1>4, <3>1, <3>2 DEF Commands
    <3>4. x.account \in Accounts /\ x.email \in Emails /\ x.email \in named[x.account]
      BY <1>2, <3>1, <3>3 DEF ConnectFits
    <3> QED BY <1>1, <1>5, <3>1, <3>3, <3>4
  <2> QED BY <2>1, <2>2
<1>9. ASSUME StoreMaterial(c)
      PROVE  /\ AccountsInv' /\ named' = named
             /\ \A b \in Accounts : ~LostUnasked(b)
  <2>1. PICK a \in Accounts : a = conn[c].account
    BY <1>2, <1>9 DEF StoreMaterial, ConnectFits
  <2>2. /\ conn[c].email \in Emails /\ conn[c].email \in named[a] /\ conn[c].pc = "write"
        /\ keychain' = [keychain EXCEPT ![a] = conn[c].email] /\ named' = named
        /\ conn[c].replace \/ conn[c].overtaken \/ keychain[a] = NoMaterial
    BY <1>2, <1>9, <2>1 DEF StoreMaterial, ConnectFits
  <2>3. keychain' \in [Accounts -> Material] /\ keychain'[a] = conn[c].email
        /\ \A b \in Accounts \ {a} : keychain'[b] = keychain[b]
    BY <1>1, <2>2 DEF Material
  <2>4. ASSUME NEW d \in Connectors, d # c
        PROVE  /\ conn'[d] \in Commands /\ conn'[d].pc = conn[d].pc
               /\ conn'[d].account = conn[d].account /\ conn'[d].email = conn[d].email
               /\ conn'[d].replace = conn[d].replace
               /\ conn[d].overtaken => conn'[d].overtaken
               /\ conn[d].pc = "write" /\ conn[d].account = a => conn'[d].overtaken
    <3>1. PICK o \in BOOLEAN :
            o = (conn[d].overtaken \/ (conn[d].pc = "write" /\ conn[d].account = a))
      OBVIOUS
    <3>2. conn'[d] = [conn[d] EXCEPT !.overtaken = o]
      BY <1>9, <2>1, <2>4, <3>1 DEF StoreMaterial
    <3>3. conn[d] \in Commands
      BY <1>1
    <3>4. conn'[d] \in Commands /\ conn'[d].overtaken = o
          /\ conn'[d].pc = conn[d].pc /\ conn'[d].replace = conn[d].replace
          /\ conn'[d].account = conn[d].account /\ conn'[d].email = conn[d].email
      BY <3>2, <3>3 DEF Commands
    <3> QED BY <3>1, <3>4
  <2>5. conn'[c] \in Commands /\ conn'[c].pc = "ended"
    BY <1>9 DEF StoreMaterial, Commands, Unstarted
  <2>6. conn' \in [Connectors -> Commands]
    <3>1. \A d \in Connectors : conn'[d] \in Commands
      BY <2>4, <2>5
    <3>2. PICK f : f = conn' /\ f = [d \in Connectors |-> f[d]]
      BY <1>9 DEF StoreMaterial
    <3> QED BY <3>1, <3>2
  <2>7. AccountsTypeOK'
    BY <1>1, <2>2, <2>3, <2>6 DEF AccountsTypeOK, Commands
  <2>8. ASSUME NEW d \in Connectors PROVE ConnectFits(d)'
    <3>1. CASE d = c
      BY <2>5, <3>1 DEF ConnectFits
    <3>2. CASE d # c
      <4>1. ConnectFits(d)
        BY <1>2
      <4> QED BY <2>2, <2>3, <2>4, <3>2, <4>1 DEF ConnectFits
    <3> QED BY <3>1, <3>2
  <2>9. \A b \in Accounts : EmailsOf(keychain'[b]) \subseteq named'[b]
    BY <1>2, <2>2, <2>3 DEF EmailsOf
  <2>10. \A b \in Accounts : ~LostUnasked(b)
    BY <2>1, <2>2, <2>3 DEF LostUnasked
  <2> QED BY <2>2, <2>7, <2>8, <2>9, <2>10 DEF AccountsInv, EmailsOf
<1>10. keychain' = keychain => \A b \in Accounts : ~LostUnasked(b)
  BY DEF LostUnasked
<1> QED BY <1>3, <1>6, <1>7, <1>8, <1>9, <1>10 DEF KeychainFails

-----------------------------------------------------------------------------
(* A step of one request leaves the others alone.                          *)
LEMMA OneWalkMoves ==
  ASSUME AgendaInv, NEW r \in Requests, NEW w \in Walk, WalkFits(w),
         req' = [req EXCEPT ![r] = w], UNCHANGED <<accounts, Google>>
  PROVE  AgendaInv'
<1>1. UNCHANGED <<keychain, conn, named, calendar, honest, edits>>
  BY DEF accounts, Google
<1>2. \A x \in Walk : WalkFits(x)' <=> WalkFits(x)
  BY <1>1 DEF WalkFits, PagesFit, AccountsFit, EventsFit, CodeFits, Busy, EmailsOf
<1>3. req \in [Requests -> Walk] /\ \A q \in Requests : WalkFits(req[q])
  BY DEF AgendaInv, TypeOK
<1>4. req' \in [Requests -> Walk] /\ \A q \in Requests : req'[q] = IF q = r THEN w ELSE req[q]
  BY <1>3
<1>5. TypeOK'
  BY <1>1, <1>4 DEF AgendaInv, TypeOK, AccountsTypeOK
<1>6. AccountsInv'
  BY <1>1 DEF AgendaInv, AccountsInv, AccountsTypeOK, ConnectFits, EmailsOf
<1>7. ASSUME NEW q \in Requests PROVE WalkFits(req[q])'
  <2>1. PICK x \in Walk : x = req'[q] /\ WalkFits(x)
    BY <1>3, <1>4
  <2>2. WalkFits(x)'
    BY <1>2, <2>1
  <2> QED BY <2>1, <2>2 DEF WalkFits, PagesFit, AccountsFit, EventsFit, CodeFits, Busy
<1> QED BY <1>5, <1>6, <1>7 DEF AgendaInv

(* A request without a walk.                                               *)
LEMMA NoWalkFits ==
  ASSUME NEW w \in Walk, w.pc \in {"idle", "done"}, w.asked = {}, w.pages = 0, w.repeated = FALSE,
         w.events = {}, w.answer # "200", \A m \in Emails : w.steady[m] = {}, CodeFits(w)
  PROVE  WalkFits(w)
<1>1. PagesFit(w)
  <2>1. Cardinality({}) = 0
    BY FS_EmptySet
  <2> QED BY <2>1 DEF PagesFit, Busy
<1>2. AccountsFit(w)
  BY DEF AccountsFit, Busy
<1>3. EventsFit(w)
  BY DEF EventsFit, Busy
<1> QED BY <1>1, <1>2, <1>3 DEF WalkFits

(* The locals of a request before it is sent.                              *)
LEMMA FreshFits == Fresh \in Walk /\ WalkFits(Fresh)
<1>1. Fresh \in Walk
  <2>1. PICK steady : steady = [m \in Emails |-> {}]
    OBVIOUS
  <2>2. steady \in [Emails -> SUBSET (1..Positions)]
    BY <2>1
  <2>3. PICK pages \in 0..MaxPages : pages = 0
    BY AgendaConstants
  <2>4. PICK events \in SUBSET (Emails \X ((1..Positions) \ Unmappable)) : events = {}
    OBVIOUS
  <2>5. PICK seen \in SUBSET Tokens : seen = {}
    OBVIOUS
  <2>6. PICK asked \in SUBSET (Tokens \cup {NoToken}) : asked = {}
    OBVIOUS
  <2>7. Fresh = [pc |-> "idle", kind |-> "none", account |-> "none",
          token |-> NoToken, seen |-> seen, pages |-> pages, events |-> events,
          complete |-> TRUE, material |-> NoMaterial, reason |-> "none",
          answer |-> "none", trouble |-> "none", asked |-> asked, repeated |-> FALSE,
          connected |-> {}, steady |-> steady]
    BY <2>1, <2>3, <2>4, <2>5, <2>6 DEF Fresh
  <2>8. NoMaterial \in Material
    BY DEF Material
  <2>9. TRUE \in BOOLEAN /\ FALSE \in BOOLEAN
    BY Zenon
  <2>10. "none" \in WalkTroubles
    BY DEF WalkTroubles
  <2> QED BY <2>2, <2>7, <2>8, <2>9, <2>10, Zenon DEF Walk
<1>2. WalkFits(Fresh)
  <2>1. PICK w \in Walk : w = Fresh
    BY <1>1
  <2>2. /\ w.pc = "idle" /\ w.asked = {} /\ w.pages = 0 /\ w.repeated = FALSE
        /\ w.events = {} /\ w.answer = "none" /\ w.kind = "none"
        /\ \A m \in Emails : w.steady[m] = {}
    BY <2>1 DEF Fresh
  <2>3. CodeFits(w)
    BY <2>2 DEF CodeFits
  <2>4. WalkFits(w)
    BY <2>2, <2>3, NoWalkFits
  <2> QED BY <2>1, <2>4
<1> QED BY <1>1, <1>2

(* A request that is answered without an agenda.                           *)
LEMMA ReplyKeepsAgenda ==
  ASSUME AgendaInv, NEW r \in Requests, UNCHANGED <<accounts, Google>>,
         NEW answer \in {"422", "500"} \cup SyncCodes, NEW trouble \in WalkTroubles,
         Reply(r, answer, trouble),
         req[r].kind = "sync" => (answer = "reconnect_required" <=>
           trouble \in {"missing", "unparsable", "refresh_rejected", "401"})
  PROVE  AgendaInv'
<1>1. PICK kind \in Kinds \cup {"none"} : kind = req[r].kind
  BY DEF AgendaInv, TypeOK, Walk
<1>2. PICK w : w = [Fresh EXCEPT !.pc = "done", !.answer = answer, !.kind = kind,
                                 !.trouble = trouble]
  OBVIOUS
<1>3. req' = [req EXCEPT ![r] = w]
  BY <1>1, <1>2 DEF Reply
<1>4. Fresh \in Walk
  BY FreshFits
<1>5. w \in Walk
  BY <1>2, <1>4 DEF Walk
<1>6. /\ w.pc = "done" /\ w.asked = {} /\ w.pages = 0 /\ w.repeated = FALSE
      /\ w.events = {} /\ w.answer = answer /\ w.kind = kind /\ w.trouble = trouble
      /\ \A m \in Emails : w.steady[m] = {}
  BY <1>2 DEF Fresh
<1>7. answer # "200"
  BY DEF SyncCodes
<1>8. CodeFits(w)
  BY <1>1, <1>6 DEF CodeFits
<1>9. WalkFits(w)
  BY <1>5, <1>6, <1>7, <1>8, NoWalkFits
<1> QED BY <1>3, <1>5, <1>9, OneWalkMoves

-----------------------------------------------------------------------------
(* The codes of the sync command.  A failure's code follows from its       *)
(* reason, and from its category where the reason has no code of its own.  *)
LEMMA CodeOfFailure ==
  ASSUME NEW category, NEW reason
  PROVE  LET code == SyncCode(Failure(category, reason))
         IN /\ reason = "reconnectRequired" => code = "reconnect_required"
            /\ reason = "credentialRefreshUnavailable" => code = "credential_refresh_failure"
            /\ reason \in {"transportUnavailable", "internalTransportError"} =>
                 code = "transport_failure"
            /\ reason = "invalidProviderResponse" => code = "malformed_provider_event"
            /\ reason \notin {"reconnectRequired", "credentialRefreshUnavailable",
                 "transportUnavailable", "internalTransportError", "invalidProviderResponse"} =>
                 /\ category = "transient" => code = "provider_transient_failure"
                 /\ category = "permanent" => code = "provider_permanent_failure"
                 /\ category = "internal" => code = "provider_internal_failure"
<1>1. PICK f : f = Failure(category, reason)
  OBVIOUS
<1>2. f.reason = reason /\ f.category = category
  BY <1>1 DEF Failure
<1>3. ASSUME reason = "reconnectRequired" PROVE SyncCode(f) = "reconnect_required"
  BY <1>2, <1>3, Zenon DEF SyncCode
<1>4. ASSUME reason = "credentialRefreshUnavailable"
      PROVE  SyncCode(f) = "credential_refresh_failure"
  BY <1>2, <1>4, Zenon DEF SyncCode
<1>5. ASSUME reason \in {"transportUnavailable", "internalTransportError"}
      PROVE  SyncCode(f) = "transport_failure"
  BY <1>2, <1>5, Zenon DEF SyncCode
<1>6. ASSUME reason = "invalidProviderResponse"
      PROVE  SyncCode(f) = "malformed_provider_event"
  BY <1>2, <1>6, Zenon DEF SyncCode
<1>7. PICK codes : codes = [transient |-> "provider_transient_failure",
                            permanent |-> "provider_permanent_failure",
                            internal |-> "provider_internal_failure"]
  OBVIOUS
<1>8. /\ codes["transient"] = "provider_transient_failure"
      /\ codes["permanent"] = "provider_permanent_failure"
      /\ codes["internal"] = "provider_internal_failure"
  BY <1>7
<1>9. ASSUME reason \notin {"reconnectRequired", "credentialRefreshUnavailable",
               "transportUnavailable", "internalTransportError", "invalidProviderResponse"}
      PROVE  SyncCode(f) = codes[category]
  BY <1>2, <1>7, <1>9, Zenon DEF SyncCode
<1> QED BY <1>1, <1>3, <1>4, <1>5, <1>6, <1>8, <1>9

-----------------------------------------------------------------------------
(* Sets of natural numbers have a least element.                           *)
LEMMA Least ==
  ASSUME NEW S \in SUBSET Nat, S # {}
  PROVE \E x \in S : \A y \in S : x <= y
<1>1. PICK R : R = OpToRel(<, Nat)
  OBVIOUS
<1>2. IsWellFoundedOn(R, Nat)
  BY <1>1, NatLessThanWellFounded
<1>3. PICK x \in S : \A y \in S : ~(<<y, x>> \in R)
  BY ONLY <1>2, WFMin, S # {}, S \in SUBSET Nat
<1>4. \A y, z \in Nat : y < z => <<y, z>> \in R
  BY <1>1 DEF OpToRel
<1>5. x \in Nat /\ \A y \in S : y \in Nat
  OBVIOUS
<1>6. \A y \in S : ~(y < x)
  BY <1>3, <1>4, <1>5
<1>7. \A y \in S : x <= y
  BY <1>5, <1>6
<1> QED BY <1>7

(* Bounded ones have a greatest.                                           *)
LEMMA Greatest ==
  ASSUME NEW n \in Nat, NEW S \in SUBSET (1..n), S # {}
  PROVE \E x \in S : \A y \in S : x >= y
<1>1. PICK T : T = {n - x : x \in S}
  OBVIOUS
<1>2. T \in SUBSET Nat /\ T # {}
  <2>1. \A x \in S : n - x \in Nat
    OBVIOUS
  <2>2. \A t \in T : t \in Nat
    BY <1>1, <2>1
  <2>3. PICK x : x \in S
    OBVIOUS
  <2>4. n - x \in T
    BY <1>1, <2>3
  <2> QED BY <2>2, <2>4
<1>3. PICK t \in T : \A u \in T : t <= u
  BY <1>2, Least
<1>4. PICK x \in S : t = n - x
  BY <1>1
<1>5. ASSUME NEW y \in S PROVE x >= y
  <2>1. n - y \in T
    BY <1>1
  <2>2. n - x <= n - y
    BY <1>3, <1>4, <2>1
  <2>3. x \in Int /\ y \in Int
    OBVIOUS
  <2> QED BY <2>2, <2>3
<1> QED BY <1>5

-----------------------------------------------------------------------------
Reconnectable == {"missing", "unparsable", "refresh_rejected", "401"}

(* The credential provider's failures are told apart by the sync command.  *)
LEMMA CredentialCodes ==
  ASSUME NEW material, NEW trouble \in Troubles(material)
  PROVE  /\ trouble \in WalkTroubles
         /\ SyncCode(CredentialFailure(trouble)) \in SyncCodes
         /\ SyncCode(CredentialFailure(trouble)) = "reconnect_required" <=>
              trouble \in Reconnectable
<1>1. trouble \in {"keychain_down", "keychain_raises", "missing", "unparsable",
                   "refresh_unreachable", "refresh_rejected", "refresh_raises"}
  BY DEF Troubles
<1>2. ASSUME trouble = "keychain_down"
      PROVE  CredentialFailure(trouble) = Failure("transient", "credentialStoreUnavailable")
  BY <1>2, Zenon DEF CredentialFailure
<1>3. ASSUME trouble = "refresh_unreachable"
      PROVE  CredentialFailure(trouble) = Failure("transient", "credentialRefreshUnavailable")
  BY <1>3, Zenon DEF CredentialFailure
<1>4. ASSUME trouble \in {"missing", "unparsable", "refresh_rejected"}
      PROVE  CredentialFailure(trouble) = Failure("permanent", "reconnectRequired")
  BY <1>4, Zenon DEF CredentialFailure
<1>5. ASSUME trouble \in {"keychain_raises", "refresh_raises"}
      PROVE  CredentialFailure(trouble) = Failure("internal", "internalCredentialsError")
  BY <1>5, Zenon DEF CredentialFailure
<1>6. PICK code : code = SyncCode(CredentialFailure(trouble))
  OBVIOUS
<1>7. ASSUME trouble = "keychain_down" PROVE code = "provider_transient_failure"
  BY <1>2, <1>6, <1>7, CodeOfFailure
<1>8. ASSUME trouble = "refresh_unreachable" PROVE code = "credential_refresh_failure"
  BY <1>3, <1>6, <1>8, CodeOfFailure
<1>9. ASSUME trouble \in {"missing", "unparsable", "refresh_rejected"}
      PROVE  code = "reconnect_required"
  BY <1>4, <1>6, <1>9, CodeOfFailure
<1>10. ASSUME trouble \in {"keychain_raises", "refresh_raises"}
       PROVE  code = "provider_internal_failure"
  BY <1>5, <1>6, <1>10, CodeOfFailure
<1>11. /\ code \in SyncCodes
       /\ code = "reconnect_required" <=> trouble \in Reconnectable
  BY <1>1, <1>7, <1>8, <1>9, <1>10 DEF SyncCodes, Reconnectable
<1>12. trouble \in WalkTroubles
  BY <1>1 DEF WalkTroubles
<1> QED BY <1>6, <1>11, <1>12

(* So are the failures of the request to Google.                           *)
LEMMA HttpCodes ==
  ASSUME NEW trouble \in HttpTroubles
  PROVE  /\ trouble \in WalkTroubles
         /\ SyncCode(HttpFailure(trouble)) \in SyncCodes
         /\ SyncCode(HttpFailure(trouble)) = "reconnect_required" <=>
              trouble \in Reconnectable
<1>1. PICK code : code = SyncCode(HttpFailure(trouble))
  OBVIOUS
<1>3. ASSUME trouble = "401" PROVE code = "reconnect_required"
  <2>1. HttpFailure(trouble) = Failure("permanent", "reconnectRequired")
    BY <1>3, Zenon DEF HttpFailure
  <2> QED BY <1>1, <2>1, CodeOfFailure
<1>4. ASSUME trouble = "timeout" PROVE code = "transport_failure"
  <2>1. HttpFailure(trouble) = Failure("transient", "transportUnavailable")
    BY <1>4, Zenon DEF HttpFailure
  <2> QED BY <1>1, <2>1, CodeOfFailure
<1>5. ASSUME trouble = "raises" PROVE code = "transport_failure"
  <2>1. HttpFailure(trouble) = Failure("internal", "internalTransportError")
    BY <1>5, Zenon DEF HttpFailure
  <2> QED BY <1>1, <2>1, CodeOfFailure
<1>6. ASSUME trouble = "400" PROVE code = "provider_permanent_failure"
  <2>1. HttpFailure(trouble) = Failure("permanent", "invalidRequest")
    BY <1>6, Zenon DEF HttpFailure
  <2> QED BY <1>1, <2>1, CodeOfFailure
<1>7. ASSUME trouble = "403" PROVE code = "provider_permanent_failure"
  <2>1. HttpFailure(trouble) = Failure("permanent", "forbidden")
    BY <1>7, Zenon DEF HttpFailure
  <2> QED BY <1>1, <2>1, CodeOfFailure
<1>8. ASSUME trouble \in {"403_rate_limit", "429"} PROVE code = "provider_transient_failure"
  <2>1. HttpFailure(trouble) = Failure("transient", "rateLimitExceeded")
    BY <1>8, Zenon DEF HttpFailure
  <2> QED BY <1>1, <2>1, CodeOfFailure
<1>9. ASSUME trouble = "5xx" PROVE code = "provider_transient_failure"
  <2>1. HttpFailure(trouble) = Failure("transient", "providerUnavailable")
    BY <1>9, Zenon DEF HttpFailure
  <2> QED BY <1>1, <2>1, CodeOfFailure
<1>10. ASSUME trouble = "other_status" PROVE code = "provider_permanent_failure"
  <2>1. HttpFailure(trouble) = Failure("permanent", "providerRequestFailed")
    BY <1>10, Zenon DEF HttpFailure
  <2> QED BY <1>1, <2>1, CodeOfFailure
<1>11. ASSUME trouble = "invalid_body" PROVE code = "malformed_provider_event"
  <2>1. HttpFailure(trouble) = Failure("internal", "invalidProviderResponse")
    BY <1>11, Zenon DEF HttpFailure
  <2> QED BY <1>1, <2>1, CodeOfFailure
<1>12. /\ code \in SyncCodes
       /\ code = "reconnect_required" <=> trouble \in Reconnectable
  BY <1>3, <1>4, <1>5, <1>6, <1>7, <1>8, <1>9, <1>10, <1>11
     DEF SyncCodes, HttpTroubles, Reconnectable
<1>13. trouble \in WalkTroubles
  BY DEF WalkTroubles
<1> QED BY <1>1, <1>12, <1>13

-----------------------------------------------------------------------------
(* A request arrives.                                                      *)
LEMMA AskKeepsAgenda ==
  ASSUME AgendaInv, NEW r \in Requests, NEW kind \in Kinds, NEW a \in Accounts,
         Ask(r, kind, a)
  PROVE  AgendaInv'
<1>1. PICK pc \in {"resolve", "validate"} :
        pc = IF kind = "query" THEN "resolve" ELSE "validate"
  OBVIOUS
<1>2. PICK emails \in SUBSET Emails : emails = EmailsOf(keychain[a])
  BY DEF EmailsOf
<1>3. PICK w : w = [Fresh EXCEPT !.pc = pc, !.kind = kind, !.account = a,
                                 !.connected = emails, !.steady = calendar]
  OBVIOUS
<1>4. req' = [req EXCEPT ![r] = w] /\ UNCHANGED <<accounts, Google>>
  BY <1>1, <1>2, <1>3 DEF Ask
<1>5. calendar \in [Emails -> SUBSET (1..Positions)]
  BY DEF AgendaInv, TypeOK
<1>6. Fresh \in Walk
  BY FreshFits
<1>7. w \in Walk
  BY <1>3, <1>5, <1>6 DEF Walk
<1>8. /\ w.pc = pc /\ w.kind = kind /\ w.account = a /\ w.connected = emails
      /\ w.steady = calendar /\ w.asked = {} /\ w.pages = 0 /\ w.repeated = FALSE
      /\ w.events = {} /\ w.token = NoToken /\ w.answer = "none" /\ w.trouble = "none"
      /\ w.seen = {}
  BY <1>3 DEF Fresh
<1>9. PagesFit(w)
  <2>1. Cardinality({}) = 0
    BY FS_EmptySet
  <2> QED BY <1>8, <2>1, AgendaConstants DEF PagesFit, Busy
<1>10. AccountsFit(w)
  BY <1>2, <1>8 DEF AccountsFit, Busy
<1>11. EventsFit(w)
  BY <1>5, <1>8 DEF EventsFit, NoToken
<1>12. CodeFits(w)
  BY <1>8 DEF CodeFits
<1> QED BY <1>4, <1>7, <1>9, <1>10, <1>11, <1>12, OneWalkMoves DEF WalkFits

(* A request moves on to its next stage, its walk not yet begun.           *)
LEMMA StageKeepsAgenda ==
  ASSUME AgendaInv, NEW r \in Requests, UNCHANGED <<accounts, Google>>,
         req[r].pc \in {"resolve", "validate"},
         NEW pc \in {"validate", "credentials"}, NEW kind \in Kinds \cup {"none"},
         kind = "sync" => req[r].kind = "sync",
         req' = [req EXCEPT ![r] = [req[r] EXCEPT !.pc = pc, !.kind = kind]]
  PROVE  AgendaInv'
<1>1. PICK w \in Walk : w = req[r] /\ WalkFits(w)
  BY DEF AgendaInv, TypeOK
<1>2. PICK x : x = [w EXCEPT !.pc = pc, !.kind = kind]
  OBVIOUS
<1>3. x \in Walk
  <2>1. w \in Walk /\ pc \in {"idle", "resolve", "validate", "credentials", "http", "done"}
    OBVIOUS
  <2> QED BY ONLY <1>2, <2>1, kind \in Kinds \cup {"none"} DEF Walk
<1>4. /\ x.pc = pc /\ x.kind = kind /\ x.account = w.account /\ x.connected = w.connected
      /\ x.steady = w.steady /\ x.asked = w.asked /\ x.pages = w.pages
      /\ x.repeated = w.repeated /\ x.events = w.events /\ x.token = w.token
      /\ x.answer = w.answer /\ x.trouble = w.trouble /\ x.seen = w.seen
      /\ x.complete = w.complete
  <2>1. /\ x.pc = pc /\ x.kind = kind /\ x.account = w.account /\ x.connected = w.connected
        /\ x.steady = w.steady /\ x.asked = w.asked /\ x.pages = w.pages
        /\ x.events = w.events /\ x.token = w.token
        /\ x.answer = w.answer /\ x.trouble = w.trouble /\ x.seen = w.seen
    BY <1>1, <1>2 DEF Walk
  <2>2. x.repeated = w.repeated
    BY ONLY <1>2, w \in Walk DEF Walk
  <2>3. x.complete = w.complete
    BY ONLY <1>2, w \in Walk DEF Walk
  <2> QED BY <2>1, <2>2, <2>3
<1>5. PagesFit(x)
  <2>1. w.asked = {} /\ w.token = NoToken /\ w.pages = 0 /\ w.repeated = FALSE
    BY <1>1 DEF WalkFits, PagesFit, Walk
  <2>2. Cardinality({}) = 0
    BY FS_EmptySet
  <2> QED BY <1>4, <2>1, <2>2, AgendaConstants DEF PagesFit, Busy
<1>6. AccountsFit(x)
  BY <1>1, <1>4 DEF WalkFits, AccountsFit, Busy
<1>7. EventsFit(x)
  BY <1>1, <1>4 DEF WalkFits, EventsFit, Busy
<1>8. CodeFits(x)
  BY <1>1, <1>4 DEF WalkFits, CodeFits
<1>9. WalkFits(x)
  BY <1>5, <1>6, <1>7, <1>8 DEF WalkFits
<1> QED BY <1>1, <1>2, <1>3, <1>9, OneWalkMoves

(* Resolving a query and validating a request.                             *)
LEMMA ResolveKeepsAgenda ==
  ASSUME AgendaInv, NEW r \in Requests, Resolve(r)
  PROVE  AgendaInv'
<1>1. PICK w \in Walk : w = req[r]
  BY DEF AgendaInv, TypeOK
<1>2. req \in [Requests -> Walk]
  BY DEF AgendaInv, TypeOK
<1>3. req[r].pc = "resolve" /\ UNCHANGED <<accounts, Google>>
  BY DEF Resolve
<1>4. CASE Dispatch(r)
  <2>1. req' = [req EXCEPT ![r] = [req[r] EXCEPT !.pc = "validate", !.kind = "command"]]
    BY <1>2, <1>4 DEF Dispatch
  <2>2. "command" \in Kinds
    BY DEF Kinds
  <2> QED BY <1>3, <2>1, <2>2, StageKeepsAgenda
<1>5. ASSUME NEW resolution \in Resolutions, Answer(r, QueryAnswer(resolution))
      PROVE  AgendaInv'
  <2>1. PICK answer \in {"422", "500"} : answer = QueryAnswer(resolution)
    BY DEF QueryAnswer
  <2>2. Reply(r, answer, "none") /\ "none" \in WalkTroubles
    BY <1>5, <2>1 DEF Answer, WalkTroubles
  <2> QED BY <1>3, <2>1, <2>2, ReplyKeepsAgenda
<1> QED BY <1>4, <1>5 DEF Resolve

(* As above, for the second stage.                                         *)
LEMMA ValidateKeepsAgenda ==
  ASSUME AgendaInv, NEW r \in Requests, Validate(r)
  PROVE  AgendaInv'
<1>1. req \in [Requests -> Walk]
  BY DEF AgendaInv, TypeOK
<1>2. req[r].pc = "validate" /\ UNCHANGED <<accounts, Google>>
  BY DEF Validate
<1>3. PICK kind \in Kinds \cup {"none"} : kind = req[r].kind
  BY <1>1 DEF Walk
<1>4. CASE Goto(r, "credentials")
  <2>1. req' = [req EXCEPT ![r] = [req[r] EXCEPT !.pc = "credentials", !.kind = kind]]
    <3>1. PICK w \in Walk : w = req[r]
      BY <1>1
    <3>2. [w EXCEPT !.pc = "credentials", !.kind = kind] = [w EXCEPT !.pc = "credentials"]
      BY <1>3, <3>1 DEF Walk
    <3> QED BY <1>1, <1>4, <3>1, <3>2 DEF Goto
  <2> QED BY <1>2, <1>3, <2>1, StageKeepsAgenda
<1>5. CASE Answer(r, IF req[r].kind = "sync" THEN "invalid_input" ELSE "422")
  <2>1. PICK answer \in {"422", "invalid_input"} :
          answer = IF req[r].kind = "sync" THEN "invalid_input" ELSE "422"
    OBVIOUS
  <2>2. Reply(r, answer, "none") /\ "none" \in WalkTroubles /\ "invalid_input" \in SyncCodes
    BY <1>5, <2>1 DEF Answer, WalkTroubles, SyncCodes
  <2> QED BY <1>2, <2>1, <2>2, ReplyKeepsAgenda
<1> QED BY <1>4, <1>5 DEF Validate

-----------------------------------------------------------------------------
(* A failure ends the walk, with the code that belongs to it.              *)
LEMMA FailureKeepsAgenda ==
  ASSUME AgendaInv, NEW r \in Requests, UNCHANGED <<accounts, Google>>,
         NEW failure, NEW trouble \in WalkTroubles, PageFails(r, failure, trouble),
         SyncCode(failure) \in SyncCodes,
         SyncCode(failure) = "reconnect_required" <=> trouble \in Reconnectable
  PROVE  AgendaInv'
<1>1. PICK code \in SyncCodes : code = SyncCode(failure)
  OBVIOUS
<1>2. CASE req[r].kind = "sync"
  <2>1. Reply(r, code, trouble)
    BY <1>1, <1>2 DEF PageFails, FailureAnswer, Noted
  <2>2. code = "reconnect_required" <=>
          trouble \in {"missing", "unparsable", "refresh_rejected", "401"}
    BY <1>1 DEF Reconnectable
  <2> QED BY <2>1, <2>2, ReplyKeepsAgenda
<1>3. CASE req[r].kind # "sync"
  <2>1. Reply(r, "500", "none") /\ "none" \in WalkTroubles
    BY <1>3 DEF PageFails, FailureAnswer, Noted, WalkTroubles
  <2> QED BY <1>3, <2>1, ReplyKeepsAgenda
<1> QED BY <1>2, <1>3

(* A page that cannot be read.                                             *)
LEMMA FailuresKeepAgenda ==
  ASSUME AgendaInv, NEW r \in Requests,
         RefuseToken(r) \/ CredentialsFail(r) \/ HttpFails(r)
  PROVE  AgendaInv'
<1>1. CASE RefuseToken(r)
  <2>1. PICK failure : failure = Failure("permanent", "none")
    OBVIOUS
  <2>2. SyncCode(failure) = "provider_permanent_failure"
    BY <2>1, CodeOfFailure
  <2>3. /\ SyncCode(failure) \in SyncCodes /\ "padded_token" \in WalkTroubles
        /\ SyncCode(failure) = "reconnect_required" <=> "padded_token" \in Reconnectable
    BY <2>2 DEF SyncCodes, WalkTroubles, Reconnectable
  <2>4. PageFails(r, failure, "padded_token") /\ UNCHANGED <<accounts, Google>>
    BY <1>1, <2>1 DEF RefuseToken
  <2> QED BY <2>3, <2>4, FailureKeepsAgenda
<1>2. CASE CredentialsFail(r)
  <2>1. PICK material : material = keychain[req[r].account]
    OBVIOUS
  <2>2. PICK trouble \in Troubles(material) : PageFails(r, CredentialFailure(trouble), trouble)
    BY <1>2, <2>1 DEF CredentialsFail
  <2>3. UNCHANGED <<accounts, Google>>
    BY <1>2 DEF CredentialsFail
  <2> QED BY <2>2, <2>3, CredentialCodes, FailureKeepsAgenda
<1>3. CASE HttpFails(r)
  <2>1. PICK trouble \in HttpTroubles : PageFails(r, HttpFailure(trouble), trouble)
    BY <1>3 DEF HttpFails
  <2>2. UNCHANGED <<accounts, Google>>
    BY <1>3 DEF HttpFails
  <2> QED BY <2>1, <2>2, HttpCodes, FailureKeepsAgenda
<1> QED BY <1>1, <1>2, <1>3

(* The sync command has its event, or knows that there is none.            *)
LEMMA SyncKeepsAgenda ==
  ASSUME AgendaInv, NEW r \in Requests, SyncEvent(r)
  PROVE  AgendaInv'
<1>1. PICK answer \in SyncOutcomes \cup {"event_not_found"} : Answer(r, answer)
  BY DEF SyncEvent
<1>2. Reply(r, answer, "none") /\ UNCHANGED <<accounts, Google>>
  BY <1>1 DEF SyncEvent, Answer
<1>3. /\ answer \in SyncCodes /\ answer # "reconnect_required"
      /\ "none" \in WalkTroubles /\ "none" \notin Reconnectable
  BY DEF SyncOutcomes, SyncCodes, WalkTroubles, Reconnectable
<1> QED BY <1>2, <1>3, ReplyKeepsAgenda DEF Reconnectable

(* The next page's credentials are read: no page is asked for twice.       *)
LEMMA ReadKeepsAgenda ==
  ASSUME AgendaInv, NEW r \in Requests, ReadCredentials(r)
  PROVE  AgendaInv'
<1>1. PICK w \in Walk : w = req[r] /\ WalkFits(w)
  BY DEF AgendaInv, TypeOK
<1>2. /\ w.pc = "credentials" /\ Usable(keychain[w.account])
      /\ UNCHANGED <<accounts, Google>>
  BY <1>1 DEF ReadCredentials
<1>3. PICK email \in Emails : email = keychain[w.account]
  BY <1>2 DEF Usable
<1>4. /\ w.token \notin w.asked /\ w.repeated = FALSE /\ w.asked \subseteq w.seen \cup {NoToken}
      /\ w.token \in w.seen \cup {NoToken} /\ Cardinality(w.asked) <= w.pages
      /\ w.pages < MaxPages
  BY <1>1, <1>2 DEF WalkFits, PagesFit, Busy, Walk
<1>5. PICK asked : asked = w.asked \cup {w.token}
  OBVIOUS
<1>6. PICK x : x = [w EXCEPT !.pc = "http", !.material = email, !.repeated = FALSE,
                            !.asked = asked]
  OBVIOUS
<1>7. req' = [req EXCEPT ![r] = x]
  <2>1. (w.repeated \/ w.token \in w.asked) = FALSE
    BY <1>4
  <2> QED BY <1>1, <1>3, <1>5, <1>6, <2>1 DEF ReadCredentials
<1>8. w.asked \in SUBSET (Tokens \cup {NoToken}) /\ w.token \in Tokens \cup {NoToken}
      /\ w.pages \in 0..MaxPages
  BY DEF Walk
<1>9. x \in Walk
  <2>1. email \in Material /\ asked \in SUBSET (Tokens \cup {NoToken})
    BY <1>5, <1>8 DEF Material
  <2>2. PICK no \in BOOLEAN : no = FALSE
    OBVIOUS
  <2>3. x = [w EXCEPT !.pc = "http", !.material = email, !.repeated = no, !.asked = asked]
    BY <1>6, <2>2
  <2> QED BY ONLY <2>1, <2>3, w \in Walk, no \in BOOLEAN DEF Walk
<1>10. /\ x.pc = "http" /\ x.material = email /\ x.asked = asked /\ x.repeated = FALSE
       /\ x.account = w.account /\ x.connected = w.connected /\ x.kind = w.kind
       /\ x.steady = w.steady /\ x.pages = w.pages /\ x.seen = w.seen
       /\ x.events = w.events /\ x.token = w.token
       /\ x.answer = w.answer /\ x.trouble = w.trouble
  BY ONLY <1>6, w \in Walk DEF Walk
<1>11. x.complete = w.complete
  BY ONLY <1>6, w \in Walk DEF Walk
<1>12. PagesFit(x)
  <2>1. IsFiniteSet(w.asked)
    <3>1. IsFiniteSet(0..Positions + 1)
      BY AgendaConstants, FS_Interval
    <3>2. w.asked \subseteq 0..Positions + 1
      BY <1>8, AgendaConstants DEF Tokens, NoToken, PaddedToken
    <3> QED BY <3>1, <3>2, FS_Subset
  <2>2. Cardinality(asked) = Cardinality(w.asked) + 1
    BY ONLY <1>4, <1>5, <2>1, FS_AddElement
  <2>3. Cardinality(w.asked) \in Nat
    BY ONLY <2>1, FS_CardinalityType
  <2>4. Cardinality(asked) <= w.pages + 1
    BY <1>4, <1>8, <2>2, <2>3
  <2> QED BY <1>4, <1>5, <1>10, <2>4 DEF PagesFit, Busy
<1>13. AccountsFit(x)
  <2>1. /\ w.account \in Accounts /\ EmailsOf(keychain[w.account]) \subseteq w.connected
        /\ \A e \in w.events : e[1] \in w.connected /\ e[1] \in named[w.account]
    BY <1>1, <1>2 DEF WalkFits, AccountsFit, Busy
  <2>2. EmailsOf(keychain[w.account]) \subseteq named[w.account]
    BY <2>1 DEF AgendaInv, AccountsInv
  <2>3. email \in w.connected /\ email \in named[w.account]
    BY <1>3, <2>1, <2>2 DEF EmailsOf
  <2> QED BY <1>10, <2>1, <2>3 DEF AccountsFit, Busy
<1>14. EventsFit(x)
  BY <1>1, <1>2, <1>10, <1>11 DEF WalkFits, EventsFit, Busy
<1>15. CodeFits(x)
  BY <1>1, <1>10 DEF WalkFits, CodeFits
<1> QED BY <1>2, <1>7, <1>9, <1>12, <1>13, <1>14, <1>15, OneWalkMoves DEF WalkFits

-----------------------------------------------------------------------------
(* What Google returns for a page: a first part of the rest of the list,   *)
(* and some of it as long as there is any.                                 *)
LEMMA PageIsPrefix ==
  ASSUME calendar \in [Emails -> SUBSET (1..Positions)], NEW email \in Emails,
         NEW token \in 0..Positions + 1, NEW page, page = PageOf(email, token),
         NEW rest, rest = Rest(email, token)
  PROVE  /\ page \subseteq rest /\ rest = {p \in calendar[email] : p > token}
         /\ rest \subseteq 1..Positions
         /\ page # rest => /\ page # {} /\ Max(page) \in page
                           /\ \A p \in rest : p <= Max(page) => p \in page
<1>1. Positions \in Nat /\ PageSize \in Nat \ {0}
  BY AgendaConstants
<1>2. /\ rest = {p \in calendar[email] : p > token} /\ rest \subseteq 1..Positions
      /\ page = {p \in rest : Cardinality({q \in rest : q <= p}) <= PageSize}
  BY DEF PageOf, Rest
<1>3. page \subseteq rest
  BY <1>2
<1>4. IsFiniteSet(rest)
  <2>1. IsFiniteSet(1..Positions)
    BY <1>1, FS_Interval
  <2> QED BY <1>2, <2>1, FS_Subset
<1>5. ASSUME rest # {} PROVE page # {}
  <2>1. rest \in SUBSET Nat
    BY <1>1, <1>2
  <2>2. PICK x \in rest : \A y \in rest : x <= y
    BY <1>5, <2>1, Least
  <2>3. {q \in rest : q <= x} = {x}
    BY <2>1, <2>2
  <2>4. Cardinality({x}) = 1
    BY FS_Singleton
  <2>5. Cardinality({q \in rest : q <= x}) <= PageSize
    BY <1>1, <2>3, <2>4
  <2> QED BY <1>2, <2>2, <2>5
<1>6. ASSUME page # {}
      PROVE  Max(page) \in page /\ \A p \in rest : p <= Max(page) => p \in page
  <2>1. page \in SUBSET (1..Positions)
    BY <1>2, <1>3
  <2>2. PICK m : m = Max(page)
    OBVIOUS
  <2>3. m \in page
    <3>1. \E x \in page : \A y \in page : x >= y
      BY <1>1, <1>6, <2>1, Greatest
    <3>2. m = CHOOSE x \in page : \A y \in page : x >= y
      BY <2>2, Zenon DEF Max
    <3> QED BY ONLY <3>1, <3>2, Zenon
  <2>4. ASSUME NEW p \in rest, p <= m PROVE p \in page
    <3>1. PICK A : A = {q \in rest : q <= p}
      OBVIOUS
    <3>2. PICK B : B = {q \in rest : q <= m}
      OBVIOUS
    <3>3. A \subseteq B
      <4>1. p \in Int /\ m \in Int /\ \A q \in rest : q \in Int
        BY <1>2, <2>1, <2>3
      <4>2. ASSUME NEW q \in A PROVE q \in B
        <5>1. q \in rest /\ q <= p
          BY <3>1
        <5>2. q <= m
          BY <2>4, <4>1, <5>1
        <5> QED BY <3>2, <5>1, <5>2
      <4> QED BY <4>2
    <3>4. IsFiniteSet(A) /\ IsFiniteSet(B)
      <4>1. A \subseteq rest /\ B \subseteq rest
        BY <3>1, <3>2
      <4> QED BY ONLY <1>4, <4>1, FS_Subset
    <3>5. Cardinality(A) <= Cardinality(B)
      BY ONLY <3>3, <3>4, FS_Subset
    <3>6. Cardinality(B) <= PageSize
      BY <1>2, <2>3, <3>2
    <3>7. Cardinality(A) \in Nat /\ Cardinality(B) \in Nat
      BY ONLY <3>4, FS_CardinalityType
    <3>8. Cardinality(A) <= PageSize
      BY <1>1, <3>5, <3>6, <3>7
    <3> QED BY <1>2, <3>1, <3>8
  <2> QED BY <2>2, <2>3, <2>4
<1>7. page # rest => page # {}
  BY <1>3, <1>5
<1> QED BY <1>2, <1>3, <1>6, <1>7

(* What FetchPage writes into a walk, one field at a time: the page it has *)
(* read (GatheredIsWalk), the token it goes on with (ContinuedIsWalk), and *)
(* the way it ends (ConcludedIsWalk), each time leaving a walk.            *)
LEMMA GatheredIsWalk ==
  ASSUME NEW w \in Walk, NEW events \in SUBSET (Emails \X ((1..Positions) \ Unmappable)),
         NEW pages \in 0..MaxPages, NEW complete \in BOOLEAN, NEW material \in Material
  PROVE  [w EXCEPT !.events = events, !.pages = pages, !.complete = complete,
                   !.material = material] \in Walk
<1>1. PICK a : a = [w EXCEPT !.events = events]
  OBVIOUS
<1>2. PICK b : b = [a EXCEPT !.pages = pages]
  OBVIOUS
<1>3. PICK c : c = [b EXCEPT !.complete = complete]
  OBVIOUS
<1>4. a \in Walk
  BY ONLY <1>1, w \in Walk,
     events \in SUBSET (Emails \X ((1..Positions) \ Unmappable)) DEF Walk
<1>5. b \in Walk
  BY ONLY <1>2, <1>4, pages \in 0..MaxPages DEF Walk
<1>6. c \in Walk
  BY ONLY <1>3, <1>5, complete \in BOOLEAN DEF Walk
<1>7. [c EXCEPT !.material = material] \in Walk
  BY ONLY <1>6, material \in Material DEF Walk
<1> QED BY <1>1, <1>2, <1>3, <1>7

LEMMA ContinuedIsWalk ==
  ASSUME NEW w \in Walk, NEW token \in Tokens, NEW seen \in SUBSET Tokens
  PROVE  [w EXCEPT !.pc = "credentials", !.token = token, !.seen = seen] \in Walk
<1>1. PICK a : a = [w EXCEPT !.pc = "credentials"]
  OBVIOUS
<1>2. PICK b : b = [a EXCEPT !.token = token]
  OBVIOUS
<1>3. a \in Walk
  BY ONLY <1>1, w \in Walk DEF Walk
<1>4. b \in Walk
  BY ONLY <1>2, <1>3, token \in Tokens DEF Walk
<1>5. [b EXCEPT !.seen = seen] \in Walk
  BY ONLY <1>4, seen \in SUBSET Tokens DEF Walk
<1> QED BY <1>1, <1>2, <1>5

LEMMA ConcludedIsWalk ==
  ASSUME NEW w \in Walk, NEW whole \in BOOLEAN,
         NEW reason \in {"exhausted", "page_limit", "repeated_page_token"}
  PROVE  [w EXCEPT !.pc = "done", !.answer = "200", !.reason = reason,
                   !.complete = whole] \in Walk
<1>1. PICK a : a = [w EXCEPT !.pc = "done"]
  OBVIOUS
<1>2. PICK b : b = [a EXCEPT !.answer = "200"]
  OBVIOUS
<1>3. PICK c : c = [b EXCEPT !.reason = reason]
  OBVIOUS
<1>4. a \in Walk
  BY ONLY <1>1, w \in Walk DEF Walk
<1>5. b \in Walk
  BY ONLY <1>2, <1>4 DEF Walk
<1>6. c \in Walk
  BY ONLY <1>3, <1>5, reason \in {"exhausted", "page_limit", "repeated_page_token"} DEF Walk
<1>7. [c EXCEPT !.complete = whole] \in Walk
  BY ONLY <1>6, whole \in BOOLEAN DEF Walk
<1> QED BY <1>1, <1>2, <1>3, <1>7

(* A page is added to the walk, which goes on or ends with the agenda.     *)
LEMMA FetchKeepsAgenda ==
  ASSUME AgendaInv, NEW r \in Requests, FetchPage(r)
  PROVE  AgendaInv'
<1>1. PICK w \in Walk : w = req[r] /\ WalkFits(w)
  BY DEF AgendaInv, TypeOK
<1>2. w.pc = "http" /\ w.kind # "sync" /\ UNCHANGED <<accounts, Google>>
  BY <1>1 DEF FetchPage
<1>3. PICK email \in Emails : email = w.material /\ email \in w.connected
                              /\ email \in named[w.account]
  BY <1>1, <1>2 DEF WalkFits, AccountsFit
<1>4. PICK token \in 0..Positions + 1 : token = w.token
  BY AgendaConstants DEF Walk, Tokens, NoToken, PaddedToken
<1>5. PICK page : page = PageOf(email, token)
  OBVIOUS
<1>6. PICK rest : rest = Rest(email, token)
  OBVIOUS
<1>7. calendar \in [Emails -> SUBSET (1..Positions)] /\ honest \in BOOLEAN
  BY DEF AgendaInv, TypeOK
<1>8. /\ page \subseteq rest /\ rest = {p \in calendar[email] : p > token}
      /\ rest \subseteq 1..Positions
      /\ page # rest => /\ page # {} /\ Max(page) \in page
                        /\ \A p \in rest : p <= Max(page) => p \in page
  BY <1>5, <1>6, <1>7, PageIsPrefix
<1>9. PICK events :
         /\ events = req[r].events \cup {<<req[r].material, p>> :
                       p \in Mapped(PageOf(req[r].material, req[r].token))}
         /\ events = w.events \cup {<<email, p>> : p \in Mapped(page)}
  BY <1>1, <1>3, <1>4, <1>5
<1>10. PICK complete \in BOOLEAN :
         /\ complete = (req[r].complete /\ PageComplete(PageOf(req[r].material, req[r].token)))
         /\ complete = (w.complete /\ PageComplete(page))
  BY <1>1, <1>3, <1>4, <1>5
<1>11. PICK y : /\ y = [req[r] EXCEPT !.events = events, !.pages = req[r].pages + 1,
                                      !.complete = complete, !.material = NoMaterial]
                /\ y = [w EXCEPT !.events = events, !.pages = w.pages + 1,
                                 !.complete = complete, !.material = NoMaterial]
  BY <1>1, Zenon
<1>12. PICK next \in NextTokens(email, token) :
         req' = [req EXCEPT ![r] =
           IF Termination(y.pages, y.seen, next) = "none" THEN Continue(y, next)
           ELSE Conclude(y, Termination(y.pages, y.seen, next))]
  <2>1. \E next \in NextTokens(req[r].material, req[r].token) :
          req' = [req EXCEPT ![r] =
            IF Termination(y.pages, y.seen, next) = "none" THEN Continue(y, next)
            ELSE Conclude(y, Termination(y.pages, y.seen, next))]
    BY <1>9, <1>10, <1>11, Zenon DEF FetchPage
  <2> QED BY <1>1, <1>3, <1>4, <2>1, Zenon
<1>13. /\ next \in 0..Positions + 1
       /\ honest => /\ next = 0 => page = rest
                    /\ next # 0 => \A p \in rest : p <= next => p \in page
  <2>1. CASE ~honest
    BY <1>12, <2>1, AgendaConstants DEF NextTokens
  <2>2. CASE honest /\ page = rest
    BY <1>5, <1>6, <1>12, <2>2, AgendaConstants DEF NextTokens, NoToken
  <2>3. CASE honest /\ page # rest
    <3>1. next = Max(page)
      BY <1>5, <1>6, <1>12, <2>3 DEF NextTokens
    <3>2. next \in 1..Positions
      BY <1>8, <2>3, <3>1
    <3> QED BY <1>8, <2>3, <3>1, <3>2, AgendaConstants
  <2> QED BY <1>7, <2>1, <2>2, <2>3
<1>14. /\ w.pages \in 0..MaxPages /\ w.pages < MaxPages /\ MaxPages \in Nat
       /\ w.asked \subseteq w.seen \cup {NoToken} /\ w.repeated = FALSE
       /\ Cardinality(w.asked) <= w.pages + 1
  BY <1>1, <1>2, AgendaConstants DEF WalkFits, PagesFit, Busy, Walk
<1>15. events \in SUBSET (Emails \X ((1..Positions) \ Unmappable))
  <2>1. w.events \in SUBSET (Emails \X ((1..Positions) \ Unmappable))
    BY DEF Walk
  <2>2. \A p \in Mapped(page) : p \in (1..Positions) \ Unmappable
    BY <1>8 DEF Mapped
  <2> QED BY <1>9, <2>1, <2>2
<1>16. y \in Walk
  <2>1. w.pages + 1 \in 0..MaxPages /\ NoMaterial \in Material
    BY <1>14 DEF Material
  <2>2. [w EXCEPT !.events = events, !.pages = w.pages + 1, !.complete = complete,
                  !.material = NoMaterial] \in Walk
    BY ONLY <1>15, <2>1, w \in Walk, complete \in BOOLEAN, GatheredIsWalk, Zenon
  <2> QED BY ONLY <1>11, <2>2, Zenon
<1>17. /\ y.events = events /\ y.pages = w.pages + 1 /\ y.seen = w.seen /\ y.kind = w.kind
       /\ y.account = w.account /\ y.connected = w.connected /\ y.steady = w.steady
       /\ y.asked = w.asked /\ y.answer = w.answer /\ y.trouble = w.trouble
  BY ONLY <1>11, w \in Walk DEF Walk
<1>18. y.repeated = w.repeated /\ y.complete = complete
  BY ONLY <1>11, w \in Walk, complete \in BOOLEAN DEF Walk
<1>19. \A m \in Emails : honest /\ complete /\ w.connected \subseteq {m} =>
         \A p \in w.steady[m] : next = 0 \/ p <= next => <<m, p>> \in events
  <2>1. SUFFICES ASSUME NEW m \in Emails, honest, complete, w.connected \subseteq {m},
                        NEW p \in w.steady[m], next = 0 \/ p <= next
                 PROVE  <<m, p>> \in events
    OBVIOUS
  <2>2. m = email
    BY <1>3, <2>1
  <2>3. w.complete /\ PageComplete(page)
    BY <1>10, <2>1
  <2>4. p \in calendar[m] /\ p \in 1..Positions
    BY <1>1, <1>7 DEF WalkFits, EventsFit, Walk
  <2>5. CASE p <= token
    <3>1. <<m, p>> \in w.events
      BY <1>1, <1>2, <1>4, <2>1, <2>3, <2>5 DEF WalkFits, EventsFit, Busy
    <3> QED BY <1>9, <3>1
  <2>6. CASE ~(p <= token)
    <3>1. p \in rest
      BY <1>8, <2>2, <2>4, <2>6
    <3>2. p \in page
      BY <1>13, <2>1, <3>1
    <3>3. p \in Mapped(page)
      BY <2>3, <3>2 DEF PageComplete
    <3> QED BY <1>9, <2>2, <3>3
  <2> QED BY <2>5, <2>6
<1>20. \A e \in events : e[1] \in w.connected /\ e[1] \in named[w.account]
  <2>1. \A e \in w.events : e[1] \in w.connected /\ e[1] \in named[w.account]
    BY <1>1 DEF WalkFits, AccountsFit
  <2> QED BY <1>3, <1>9, <2>1
<1>21. /\ w.account \in Accounts /\ EmailsOf(keychain[w.account]) \subseteq w.connected
       /\ \A m \in Emails : w.steady[m] \subseteq calendar[m]
       /\ w.answer # "200"
  BY <1>1, <1>2 DEF WalkFits, AccountsFit, EventsFit, Busy
<1>22. CASE Termination(y.pages, y.seen, next) = "none"
  <2>1. next # NoToken /\ ~(y.pages >= MaxPages) /\ next \notin y.seen
    BY <1>22 DEF Termination
  <2>2. PICK seen : seen = w.seen \cup {next}
    OBVIOUS
  <2>3. PICK x : x = [y EXCEPT !.pc = "credentials", !.token = next, !.seen = seen]
    OBVIOUS
  <2>4. req' = [req EXCEPT ![r] = x]
    BY <1>12, <1>17, <1>22, <2>2, <2>3 DEF Continue
  <2>5. x \in Walk
    <3>1. next \in Tokens
      BY <1>13, <2>1, AgendaConstants DEF Tokens, NoToken, PaddedToken
    <3>2. w.seen \in SUBSET Tokens
      BY DEF Walk
    <3>3. seen \in SUBSET Tokens
      BY <2>2, <3>1, <3>2
    <3> QED BY ONLY <1>16, <2>3, <3>1, <3>3, ContinuedIsWalk
  <2>6. /\ x.pc = "credentials" /\ x.token = next /\ x.seen = seen
        /\ x.events = events /\ x.pages = w.pages + 1 /\ x.kind = w.kind
        /\ x.account = w.account /\ x.connected = w.connected /\ x.steady = w.steady
        /\ x.asked = w.asked /\ x.answer = w.answer
    <3>1. /\ x.pc = "credentials" /\ x.token = next /\ x.seen = seen
          /\ x.events = y.events /\ x.pages = y.pages /\ x.kind = y.kind
          /\ x.account = y.account /\ x.connected = y.connected /\ x.steady = y.steady
          /\ x.asked = y.asked /\ x.answer = y.answer
      BY ONLY <1>16, <2>3 DEF Walk
    <3> QED BY <1>17, <3>1
  <2>7. x.repeated = y.repeated /\ x.complete = y.complete
    BY ONLY <1>16, <2>3 DEF Walk
  <2>8. PagesFit(x)
    BY <1>14, <1>17, <1>18, <2>1, <2>2, <2>6, <2>7 DEF PagesFit, Busy
  <2>9. AccountsFit(x)
    BY <1>20, <1>21, <2>6 DEF AccountsFit, Busy
  <2>10. EventsFit(x)
    BY <1>18, <1>19, <1>21, <2>6, <2>7 DEF EventsFit, Busy
  <2>11. CodeFits(x)
    BY <1>2, <2>6 DEF CodeFits
  <2> QED BY <1>2, <2>4, <2>5, <2>8, <2>9, <2>10, <2>11, OneWalkMoves DEF WalkFits
<1>23. CASE Termination(y.pages, y.seen, next) # "none"
  <2>1. PICK reason \in {"exhausted", "page_limit", "repeated_page_token"} :
          /\ reason = Termination(y.pages, y.seen, next)
          /\ reason = "exhausted" => next = 0
    BY <1>23 DEF Termination, NoToken
  <2>2. PICK whole \in BOOLEAN : whole = (complete /\ reason = "exhausted")
    OBVIOUS
  <2>3. PICK x : x = [y EXCEPT !.pc = "done", !.answer = "200", !.reason = reason,
                              !.complete = whole]
    OBVIOUS
  <2>4. req' = [req EXCEPT ![r] = x]
    <3>1. Conclude(y, reason) = x
      BY <1>18, <2>2, <2>3 DEF Conclude
    <3> QED BY <1>12, <1>23, <2>1, <3>1
  <2>5. x \in Walk
    BY ONLY <1>16, <2>3, whole \in BOOLEAN, ConcludedIsWalk,
       reason \in {"exhausted", "page_limit", "repeated_page_token"}
  <2>6. /\ x.pc = "done" /\ x.answer = "200"
        /\ x.events = events /\ x.pages = w.pages + 1 /\ x.kind = w.kind
        /\ x.account = w.account /\ x.connected = w.connected /\ x.steady = w.steady
        /\ x.asked = w.asked /\ x.seen = w.seen
    <3>1. /\ x.pc = "done" /\ x.answer = "200"
          /\ x.events = y.events /\ x.pages = y.pages /\ x.kind = y.kind
          /\ x.account = y.account /\ x.connected = y.connected /\ x.steady = y.steady
          /\ x.asked = y.asked /\ x.seen = y.seen
      BY ONLY <1>16, <2>3 DEF Walk
    <3> QED BY <1>17, <3>1
  <2>7. x.repeated = y.repeated /\ x.complete = whole
    BY ONLY <1>16, <2>3, whole \in BOOLEAN DEF Walk
  <2>8. PagesFit(x)
    BY <1>14, <1>17, <1>18, <2>6, <2>7 DEF PagesFit, Busy
  <2>9. AccountsFit(x)
    BY <1>20, <1>21, <2>6 DEF AccountsFit, Busy
  <2>10. EventsFit(x)
    BY <1>19, <1>21, <2>1, <2>2, <2>6, <2>7 DEF EventsFit, Busy
  <2>11. CodeFits(x)
    BY <1>2, <2>6 DEF CodeFits
  <2> QED BY <1>2, <2>4, <2>5, <2>8, <2>9, <2>10, <2>11, OneWalkMoves DEF WalkFits
<1> QED BY <1>22, <1>23

-----------------------------------------------------------------------------
(* A user edits a calendar: what stays is still where the walks expect it. *)
LEMMA EditKeepsAgenda ==
  ASSUME AgendaInv, NEW email \in Emails, NEW p \in 1..Positions, Edit(email, p)
  PROVE  AgendaInv'
<1>1. /\ calendar \in [Emails -> SUBSET (1..Positions)] /\ req \in [Requests -> Walk]
      /\ edits \in 0..MaxEdits /\ AccountsTypeOK /\ AccountsInv /\ honest \in BOOLEAN
      /\ \A q \in Requests : WalkFits(req[q])
  BY DEF AgendaInv, TypeOK
<1>2. /\ UNCHANGED <<keychain, conn, named, honest>> /\ edits < MaxEdits /\ edits' = edits + 1
      /\ calendar' = [calendar EXCEPT ![email] = IF p \in calendar[email]
                        THEN calendar[email] \ {p} ELSE calendar[email] \cup {p}]
  BY DEF Edit, accounts
<1>3. PICK new : new = calendar'
  OBVIOUS
<1>4. /\ new \in [Emails -> SUBSET (1..Positions)]
      /\ \A m \in Emails \ {email} : new[m] = calendar[m]
  BY <1>1, <1>2, <1>3
<1>5. req' = [q \in Requests |-> [req[q] EXCEPT !.steady[email] =
                                    req[q].steady[email] \cap new[email]]]
  BY <1>3 DEF Edit
<1>6. ASSUME NEW q \in Requests
      PROVE  req'[q] \in Walk /\ WalkFits(req[q])'
  <2>1. PICK w \in Walk : w = req[q] /\ WalkFits(w)
    BY <1>1
  <2>2. w.steady \in [Emails -> SUBSET (1..Positions)]
    BY DEF Walk
  <2>3. PICK steady : steady = [w.steady EXCEPT ![email] = w.steady[email] \cap new[email]]
    OBVIOUS
  <2>4. /\ steady \in [Emails -> SUBSET (1..Positions)]
        /\ \A m \in Emails : steady[m] \subseteq w.steady[m]
        /\ steady[email] \subseteq new[email]
    BY <2>2, <2>3
  <2>5. PICK x : x = [w EXCEPT !.steady = steady]
    OBVIOUS
  <2>6. req'[q] = x
    BY <1>5, <2>1, <2>3, <2>5
  <2>7. x \in Walk
    BY ONLY <2>4, <2>5, w \in Walk DEF Walk
  <2>8. /\ x.pc = w.pc /\ x.kind = w.kind /\ x.account = w.account /\ x.connected = w.connected
        /\ x.steady = steady /\ x.asked = w.asked /\ x.pages = w.pages
        /\ x.events = w.events /\ x.token = w.token /\ x.material = w.material
        /\ x.answer = w.answer /\ x.trouble = w.trouble /\ x.seen = w.seen
    BY ONLY <2>5, w \in Walk DEF Walk
  <2>9. x.repeated = w.repeated /\ x.complete = w.complete
    BY ONLY <2>5, w \in Walk DEF Walk
  <2>10. PagesFit(req[q])'
    BY <2>1, <2>6, <2>8, <2>9 DEF WalkFits, PagesFit, Busy
  <2>11. AccountsFit(req[q])'
    BY <1>2, <2>1, <2>6, <2>8 DEF WalkFits, AccountsFit, Busy, EmailsOf
  <2>12. EventsFit(req[q])'
    <3>1. /\ w.answer = "200" => w.pc = "done"
          /\ \A m \in Emails : w.steady[m] \subseteq calendar[m]
          /\ \A m \in Emails : honest /\ w.complete /\ w.connected \subseteq {m} =>
               \A z \in w.steady[m] :
                 (Busy(w) /\ z <= w.token) \/ w.answer = "200" => <<m, z>> \in w.events
      BY <2>1 DEF WalkFits, EventsFit
    <3>2. Busy(x) <=> Busy(w)
      BY <2>8 DEF Busy
    <3>3. \A m \in Emails : steady[m] \subseteq new[m]
      BY <1>4, <2>4, <3>1
    <3>4. \A m \in Emails : honest /\ x.complete /\ x.connected \subseteq {m} =>
            \A z \in x.steady[m] :
              (Busy(x) /\ z <= x.token) \/ x.answer = "200" => <<m, z>> \in x.events
      BY <2>4, <2>8, <2>9, <3>1, <3>2
    <3> QED BY <1>2, <1>3, <2>6, <2>8, <3>1, <3>3, <3>4 DEF EventsFit, Busy
  <2>13. CodeFits(req[q])'
    BY <2>1, <2>6, <2>8 DEF WalkFits, CodeFits
  <2> QED BY <2>6, <2>7, <2>10, <2>11, <2>12, <2>13 DEF WalkFits
<1>7. TypeOK'
  <2>1. req' \in [Requests -> Walk]
    BY <1>5, <1>6
  <2>2. edits' \in 0..MaxEdits
    BY <1>1, <1>2, AgendaConstants
  <2> QED BY <1>1, <1>2, <1>3, <1>4, <2>1, <2>2 DEF TypeOK, AccountsTypeOK
<1>8. AccountsInv'
  BY <1>1, <1>2 DEF AccountsInv, AccountsTypeOK, ConnectFits, EmailsOf
<1> QED BY <1>6, <1>7, <1>8 DEF AgendaInv

(* A connect command moves while requests walk.                            *)
LEMMA ConnectKeepsAgenda ==
  ASSUME AgendaInv, ConnectStep
  PROVE  AgendaInv'
<1>1. /\ calendar \in [Emails -> SUBSET (1..Positions)] /\ req \in [Requests -> Walk]
      /\ edits \in 0..MaxEdits /\ AccountsInv /\ honest \in BOOLEAN
      /\ \A q \in Requests : WalkFits(req[q])
  BY DEF AgendaInv, TypeOK
<1>2. ConnectNext /\ UNCHANGED <<calendar, honest, edits>>
  BY DEF ConnectStep, Google
<1>3. AccountsInv' /\ \A a \in Accounts : named[a] \subseteq named'[a]
  BY <1>1, <1>2, ConnectKeepsAccounts
<1>4. ASSUME NEW q \in Requests
      PROVE  req'[q] \in Walk /\ WalkFits(req[q])'
  <2>1. PICK w \in Walk : w = req[q] /\ WalkFits(w)
    BY <1>1
  <2>2. PICK connected \in SUBSET Emails :
          /\ w.connected \subseteq connected
          /\ w.pc \in {"idle", "done"} => connected = w.connected
          /\ w.pc \notin {"idle", "done"} =>
               connected = w.connected \cup EmailsOf(keychain'[w.account])
    <3>1. w.connected \in SUBSET Emails
      BY DEF Walk
    <3> QED BY <3>1 DEF EmailsOf
  <2>3. PICK x : x = [w EXCEPT !.connected = connected]
    OBVIOUS
  <2>4. req'[q] = x
    <3>1. CASE w.pc \in {"idle", "done"}
      <4>1. req'[q] = w
        BY <2>1, <3>1 DEF ConnectStep
      <4>2. x = w
        BY ONLY <2>2, <2>3, <3>1, w \in Walk DEF Walk
      <4> QED BY <4>1, <4>2
    <3>2. CASE w.pc \notin {"idle", "done"}
      BY <2>1, <2>2, <2>3, <3>2 DEF ConnectStep
    <3> QED BY <3>1, <3>2
  <2>5. x \in Walk
    BY ONLY <2>3, w \in Walk, connected \in SUBSET Emails DEF Walk
  <2>6. /\ x.pc = w.pc /\ x.kind = w.kind /\ x.account = w.account /\ x.connected = connected
        /\ x.steady = w.steady /\ x.asked = w.asked /\ x.pages = w.pages
        /\ x.events = w.events /\ x.token = w.token /\ x.material = w.material
        /\ x.answer = w.answer /\ x.trouble = w.trouble /\ x.seen = w.seen
    BY ONLY <2>3, w \in Walk DEF Walk
  <2>7. x.repeated = w.repeated /\ x.complete = w.complete
    BY ONLY <2>3, w \in Walk DEF Walk
  <2>8. PagesFit(req[q])'
    BY <2>1, <2>4, <2>6, <2>7 DEF WalkFits, PagesFit, Busy
  <2>9. AccountsFit(req[q])'
    <3>1. /\ Busy(w) \/ w.events # {} => w.account \in Accounts
          /\ w.pc = "http" => /\ w.material \in Emails /\ w.material \in w.connected
                              /\ w.material \in named[w.account]
          /\ \A e \in w.events : e[1] \in w.connected /\ e[1] \in named[w.account]
      BY <2>1 DEF WalkFits, AccountsFit
    <3>2. Busy(w) => EmailsOf(keychain'[w.account]) \subseteq connected
      BY <2>2 DEF Busy
    <3>3. w.pc = "http" => w.material \in connected /\ w.material \in named'[w.account]
      BY <1>3, <2>2, <3>1 DEF Busy
    <3>4. \A e \in w.events : e[1] \in connected /\ e[1] \in named'[w.account]
      BY <1>3, <2>2, <3>1
    <3> QED BY <2>4, <2>6, <3>1, <3>2, <3>3, <3>4 DEF AccountsFit, Busy, EmailsOf
  <2>10. EventsFit(req[q])'
    <3>1. /\ w.answer = "200" => w.pc = "done"
          /\ \A m \in Emails : w.steady[m] \subseteq calendar[m]
          /\ \A m \in Emails : honest /\ w.complete /\ w.connected \subseteq {m} =>
               \A z \in w.steady[m] :
                 (Busy(w) /\ z <= w.token) \/ w.answer = "200" => <<m, z>> \in w.events
      BY <2>1 DEF WalkFits, EventsFit
    <3>2. Busy(x) <=> Busy(w)
      BY <2>6 DEF Busy
    <3>3. \A m \in Emails : honest /\ x.complete /\ x.connected \subseteq {m} =>
            \A z \in x.steady[m] :
              (Busy(x) /\ z <= x.token) \/ x.answer = "200" => <<m, z>> \in x.events
      BY <2>2, <2>6, <2>7, <3>1, <3>2
    <3> QED BY <1>2, <2>4, <2>6, <3>1, <3>3 DEF EventsFit, Busy
  <2>11. CodeFits(req[q])'
    BY <2>1, <2>4, <2>6 DEF WalkFits, CodeFits
  <2> QED BY <2>4, <2>5, <2>8, <2>9, <2>10, <2>11 DEF WalkFits
<1>5. TypeOK'
  <2>1. req' \in [Requests -> Walk]
    <3>1. PICK f : f = req' /\ f = [q \in Requests |-> f[q]]
      BY DEF ConnectStep
    <3> QED BY <1>4, <3>1
  <2>2. AccountsTypeOK'
    BY <1>3 DEF AccountsInv
  <2> QED BY <1>1, <1>2, <2>1, <2>2 DEF TypeOK
<1> QED BY <1>3, <1>4, <1>5 DEF AgendaInv

-----------------------------------------------------------------------------
(* The invariant holds to begin with.                                      *)
LEMMA AgendaStarts ==
  ASSUME Init
  PROVE  AgendaInv
<1>1. AccountsTypeOK
  <2>1. Unstarted \in Commands
    BY DEF Unstarted, Commands
  <2>2. conn \in [Connectors -> Commands]
    BY <2>1 DEF Init, AccountsInit
  <2>3. named \in [Accounts -> SUBSET Emails]
    BY DEF Init, AccountsInit, EmailsOf
  <2>4. keychain \in [Accounts -> Material]
    BY DEF Init, AccountsInit
  <2> QED BY <2>2, <2>3, <2>4 DEF AccountsTypeOK, Commands
<1>2. AccountsInv
  <2>1. \A c \in Connectors : conn[c].pc = "idle"
    BY DEF Init, AccountsInit, Unstarted
  <2>2. \A a \in Accounts : EmailsOf(keychain[a]) \subseteq named[a]
    BY DEF Init, AccountsInit
  <2> QED BY <1>1, <2>1, <2>2 DEF AccountsInv, ConnectFits
<1>3. req = [r \in Requests |-> Fresh] /\ calendar = FirstCalendar /\ edits = 0
      /\ honest \in BOOLEAN
  BY DEF Init
<1>4. TypeOK
  BY <1>1, <1>3, FreshFits, AgendaConstants DEF TypeOK
<1>5. \A r \in Requests : WalkFits(req[r])
  BY <1>3, FreshFits
<1> QED BY <1>2, <1>4, <1>5 DEF AgendaInv

(* Every step keeps it.                                                    *)
LEMMA AgendaKept ==
  ASSUME AgendaInv, [Next]_vars
  PROVE  AgendaInv'
<1>1. ASSUME NEW r \in Requests, RequestStep(r) PROVE AgendaInv'
  <2>1. CASE Resolve(r)
    BY <2>1, ResolveKeepsAgenda
  <2>2. CASE Validate(r)
    BY <2>2, ValidateKeepsAgenda
  <2>3. CASE RefuseToken(r) \/ CredentialsFail(r) \/ HttpFails(r)
    BY <2>3, FailuresKeepAgenda
  <2>4. CASE ReadCredentials(r)
    BY <2>4, ReadKeepsAgenda
  <2>5. CASE FetchPage(r)
    BY <2>5, FetchKeepsAgenda
  <2>6. CASE SyncEvent(r)
    BY <2>6, SyncKeepsAgenda
  <2> QED BY <1>1, <2>1, <2>2, <2>3, <2>4, <2>5, <2>6 DEF RequestStep
<1>2. CASE UNCHANGED vars
  <2>1. UNCHANGED <<keychain, conn, named, calendar, honest, edits, req>>
    BY <1>2 DEF vars, accounts
  <2>2. TypeOK' /\ AccountsInv'
    BY <2>1 DEF AgendaInv, TypeOK, AccountsInv, AccountsTypeOK, ConnectFits, EmailsOf
  <2>3. \A r \in Requests : WalkFits(req[r])'
    BY <2>1 DEF AgendaInv, WalkFits, PagesFit, AccountsFit, EventsFit, CodeFits, Busy, EmailsOf
  <2> QED BY <2>2, <2>3 DEF AgendaInv
<1> QED BY <1>1, <1>2, AskKeepsAgenda, EditKeepsAgenda, ConnectKeepsAgenda DEF Next

(* The invariant is one of the specification: connections, walks and codes *)
(* fit together in every reachable state, and every variable has its type. *)
THEOREM AgendaCorrect == Spec => []AgendaInv
<1>1. Init => AgendaInv
  BY AgendaStarts
<1>2. AgendaInv /\ [Next]_vars => AgendaInv'
  BY AgendaKept
<1> QED BY <1>1, <1>2, PTL DEF Spec

-----------------------------------------------------------------------------
(* store of the keychain replaces an account's material only when connect  *)
(* was told to replace it, or when another connect overtook it.            *)
THEOREM ConnectionsAreKept == Spec => NeverReplacedUnasked
<1>1. ASSUME AgendaInv, [Next]_vars, ~UNCHANGED accounts
      PROVE  \A a \in Accounts : ~LostUnasked(a)
  <2>1. ConnectNext
    BY <1>1 DEF Next, vars, RequestStep, Ask, Resolve, Validate, RefuseToken, CredentialsFail,
                ReadCredentials, HttpFails, FetchPage, SyncEvent, Edit, ConnectStep
  <2>2. AccountsInv
    BY <1>1 DEF AgendaInv
  <2> QED BY <2>1, <2>2, ConnectKeepsAccounts
<1>2. AgendaInv /\ [Next]_vars =>
        [\A a \in Accounts :
           keychain[a] # NoMaterial /\ keychain'[a] # keychain[a] =>
             \E c \in Connectors :
               /\ conn[c].pc = "write" /\ conn[c].account = a
               /\ conn[c].replace \/ conn[c].overtaken]_accounts
  BY <1>1 DEF LostUnasked
<1> QED BY <1>2, AgendaCorrect, PTL DEF Spec, NeverReplacedUnasked

(* Whatever page tokens Google returns, a walk asks for no page twice and  *)
(* for no more than MaxPages.                                              *)
THEOREM WalksAreBounded == Spec => []WalkIsBounded
<1>1. AgendaInv => WalkIsBounded
  <2>1. SUFFICES ASSUME AgendaInv, NEW r \in Requests
                 PROVE  ~req[r].repeated /\ Cardinality(req[r].asked) <= MaxPages
    BY DEF WalkIsBounded
  <2>2. PICK w \in Walk : w = req[r] /\ WalkFits(w)
    BY <2>1 DEF AgendaInv, TypeOK
  <2>3. IsFiniteSet(w.asked)
    <3>1. IsFiniteSet(0..Positions + 1)
      BY AgendaConstants, FS_Interval
    <3>2. w.asked \subseteq 0..Positions + 1
      BY AgendaConstants DEF Walk, Tokens, NoToken, PaddedToken
    <3> QED BY <3>1, <3>2, FS_Subset
  <2>4. Cardinality(w.asked) \in Nat
    BY <2>3, FS_CardinalityType
  <2>5. /\ ~w.repeated /\ Cardinality(w.asked) <= w.pages + (IF w.pc = "http" THEN 1 ELSE 0)
        /\ w.pc = "http" => w.pages < MaxPages
        /\ w.pages \in 0..MaxPages
    BY <2>2 DEF WalkFits, PagesFit, Busy, Walk
  <2>6. Cardinality(w.asked) <= MaxPages
    BY <2>4, <2>5, AgendaConstants
  <2> QED BY <2>2, <2>5, <2>6
<1> QED BY <1>1, AgendaCorrect, PTL

(* An agenda shows events only of Google accounts connected to the VELOX   *)
(* account while the walk ran and named for it by an operator.             *)
THEOREM EventsAreTheAccounts == Spec => []EventsOfNamedAccounts
<1>1. AgendaInv => EventsOfNamedAccounts
  BY DEF AgendaInv, WalkFits, AccountsFit, EventsOfNamedAccounts
<1> QED BY <1>1, AgendaCorrect, PTL

(* The sync command asks for a reconnect exactly when one can help.        *)
THEOREM ReconnectsHelp == Spec => []ReconnectCanHelp
<1>1. AgendaInv => ReconnectCanHelp
  BY DEF AgendaInv, WalkFits, CodeFits, ReconnectCanHelp
<1> QED BY <1>1, AgendaCorrect, PTL

(* An agenda that says aggregate_complete lists every event that stayed in *)
(* place, for any page size, page limit and edits around it.               *)
THEOREM CompleteAgendas == Spec => []CompleteMeansAll
<1>1. AgendaInv => CompleteMeansAll
  <2>1. SUFFICES ASSUME AgendaInv, NEW r \in Requests, NEW email \in Emails,
                        req[r].answer = "200" /\ req[r].complete /\ honest
                          /\ req[r].connected = {email},
                        NEW p \in req[r].steady[email]
                 PROVE  p \in 1..Positions /\ <<email, p>> \in req[r].events
    BY DEF CompleteMeansAll
  <2>2. PICK w \in Walk : w = req[r] /\ WalkFits(w)
    BY <2>1 DEF AgendaInv, TypeOK
  <2>3. p \in 1..Positions
    BY <2>1, <2>2 DEF Walk
  <2>4. <<email, p>> \in w.events
    BY <2>1, <2>2 DEF WalkFits, EventsFit
  <2> QED BY <2>2, <2>3, <2>4
<1> QED BY <1>1, AgendaCorrect, PTL
=============================================================================
