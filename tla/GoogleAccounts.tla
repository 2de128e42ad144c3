--------------------------- MODULE GoogleAccounts ---------------------------
(***************************************************************************)
(* Google credentials: the connect command that authorizes, verifies and   *)
(* stores one account's refresh token in the keychain, and the provider    *)
(* that reads and refreshes it before every request to Google.             *)
(*                                                                         *)
(* The command and the server are different processes that share only the  *)
(* keychain, whose single reads and writes are the atomic steps.  Emails   *)
(* stand for addresses after strip and casefold, as connect compares them. *)
(***************************************************************************)
EXTENDS Naturals, FiniteSets

CONSTANTS
  Accounts,     \* VELOX account identifiers
  Emails,       \* Google accounts
  Connectors    \* runs of the connect command

VARIABLES
  keychain,     \* stored material of every account, or NoMaterial
  conn,         \* connect commands
  named         \* observation: Google accounts operators named for an account

accounts == <<keychain, conn, named>>

(* Serialized material stands for the Google account its refresh token     *)
(* belongs to; Damaged is what _parse_credential_material rejects, and     *)
(* Empty the empty string, which counts as an entry but which get cannot   *)
(* even wrap: CredentialMaterial raises on it.                             *)
NoMaterial == "none"
Damaged == "damaged"
Empty == "empty"
Material == Emails \cup {NoMaterial, Damaged, Empty}
EmailsOf(material) == {material} \cap Emails

Unstarted == [pc |-> "idle", account |-> "none", email |-> "nobody",
              replace |-> FALSE, overtaken |-> FALSE]

(* A keychain may hold material of an earlier release or a damaged entry.  *)
AccountsInit ==
  /\ keychain \in [Accounts -> Material]
  /\ conn = [c \in Connectors |-> Unstarted]
  /\ named = [a \in Accounts |-> EmailsOf(keychain[a])]

(* The command ends; which code it prints is left out.                     *)
Ends(c) ==
  /\ conn' = [conn EXCEPT ![c] = [Unstarted EXCEPT !.pc = "ended"]]
  /\ UNCHANGED <<keychain, named>>

-----------------------------------------------------------------------------
(* connect ACCOUNT --expected-google-email EMAIL [--replace]: the browser  *)
(* flow comes back with a grant of whatever account the user picked;       *)
(* scopes, token fields and identity are each checked before the next, and *)
(* the verified email against the expected one last.  None of it touches   *)
(* what the processes share.                                               *)
Grants == [email : Emails, sound : BOOLEAN]
  \* sound: approved scopes, all token fields, a verified email

Acceptable_AnyEmail(grant, expected) == grant.sound
Acceptable(grant, expected) == grant.sound /\ grant.email = expected

Connect(c, a, expected, replace, grant) ==
  /\ conn[c].pc = "idle"
  /\ conn' = [conn EXCEPT ![c] =
                IF Acceptable(grant, expected)
                THEN [pc |-> "check", account |-> a, email |-> grant.email,
                      replace |-> replace, overtaken |-> FALSE]
                ELSE [Unstarted EXCEPT !.pc = "ended"]]
  /\ named' = [named EXCEPT ![a] = @ \cup {expected}]
  /\ UNCHANGED keychain

(* MacOSKeychainCredentialStore.store: look first, write afterwards; every *)
(* keychain call may fail.                                                 *)
CheckExisting_Ignored(c) ==
  /\ conn[c].pc = "check"
  /\ conn' = [conn EXCEPT ![c].pc = "write"]
  /\ UNCHANGED <<keychain, named>>

CheckExisting(c) ==
  /\ conn[c].pc = "check"
  /\ IF keychain[conn[c].account] # NoMaterial /\ ~conn[c].replace
     THEN Ends(c)
     ELSE /\ conn' = [conn EXCEPT ![c].pc = "write"]
          /\ UNCHANGED <<keychain, named>>

(* A command that another one overtakes between its look and its write is  *)
(* marked: the docstring of store leaves that race open.                   *)
StoreMaterial(c) ==
  LET a == conn[c].account
  IN /\ conn[c].pc = "write"
     /\ keychain' = [keychain EXCEPT ![a] = conn[c].email]
     /\ conn' = [d \in Connectors |->
                   IF d = c THEN [Unstarted EXCEPT !.pc = "ended"]
                   ELSE [conn[d] EXCEPT !.overtaken =
                           @ \/ (conn[d].pc = "write" /\ conn[d].account = a)]]
     /\ UNCHANGED named

KeychainFails(c) ==
  /\ conn[c].pc \in {"check", "write"}
  /\ Ends(c)

ConnectNext ==
  \E c \in Connectors :
    \/ \E a \in Accounts, expected \in Emails, replace \in BOOLEAN :
         \E grant \in Grants : Connect(c, a, expected, replace, grant)
    \/ CheckExisting(c) \/ StoreMaterial(c) \/ KeychainFails(c)

-----------------------------------------------------------------------------
(* StoredGoogleCredentialsProvider.get_credentials: what may go wrong with *)
(* the material it reads, and the category and reason it reports for it.   *)
Troubles(material) ==
  {"keychain_down", "keychain_raises"} \cup
  (IF material = Empty THEN {}
   ELSE IF material = NoMaterial THEN {"missing"}
   ELSE IF material = Damaged THEN {"unparsable"}
   ELSE {"refresh_unreachable", "refresh_rejected", "refresh_raises"})

Usable(material) == material \in Emails

Failure(category, reason) == [category |-> category, reason |-> reason]

CredentialFailure_AllReconnect(trouble) ==
  IF trouble \in {"refresh_unreachable", "keychain_raises"}
  THEN Failure("transient", "credentialRefreshUnavailable")
  ELSE Failure("permanent", "reconnectRequired")

CredentialFailure(trouble) ==
  CASE trouble = "keychain_down" ->
         Failure("transient", "credentialStoreUnavailable")
    [] trouble = "refresh_unreachable" ->
         Failure("transient", "credentialRefreshUnavailable")
    [] trouble \in {"missing", "unparsable", "refresh_rejected"} ->
         Failure("permanent", "reconnectRequired")
    [] trouble \in {"keychain_raises", "refresh_raises"} ->
         Failure("internal", "internalCredentialsError")

(* Stored material is replaced only by a connect that was told to replace  *)
(* it, or that another connect overtook between its look and its write:    *)
(* the race store's docstring admits is the only way to lose a connection  *)
(* (CheckExisting and StoreMaterial of overlapping commands).              *)
NeverReplacedUnasked ==
  [][\A a \in Accounts :
       keychain[a] # NoMaterial /\ keychain'[a] # keychain[a] =>
         \E c \in Connectors :
           /\ conn[c].pc = "write" /\ conn[c].account = a
           /\ conn[c].replace \/ conn[c].overtaken]_accounts

AccountsTypeOK ==
  /\ keychain \in [Accounts -> Material]
  /\ conn \in [Connectors ->
       [pc : {"idle", "check", "write", "ended"},
        account : Accounts \cup {"none"}, email : Emails \cup {"nobody"},
        replace : BOOLEAN, overtaken : BOOLEAN]]
  /\ named \in [Accounts -> SUBSET Emails]
=============================================================================
