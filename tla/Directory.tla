------------------------------ MODULE Directory -------------------------------
(***************************************************************************)
(* From a credential to the account it stands for: the identity providers  *)
(* (GoogleProvider, MicrosoftProvider, DevProvider) and the first part of  *)
(* AuthService.Login, which makes the account on the first sign-in.  What  *)
(* a sign-in does next, to invites and memberships, is in Membership.      *)
(*                                                                         *)
(* An action is one statement on MySQL with the handler's decision on its  *)
(* result; sign-ins interleave between them.  A credential is what a token *)
(* says that is signed, not expired, for this client and by the provider,  *)
(* or a pair of email and name; no other gets so far.                      *)
(***************************************************************************)
EXTENDS Clock, Sequences, FiniteSets

CONSTANTS
  Providers,        \* AUTH_PROVIDERS
  Addresses,        \* email addresses, in lower case
  SignIns,          \* request slots of sign-ins
  TouchEvery,       \* ticks of an hour, the throttle of last_active_at
  DirectoryHorizon  \* the clock stops here (bound for TLC)

ASSUME DirectoryAssumption ==
  /\ Providers \subseteq {"google", "microsoft", "dev"}
  /\ TouchEvery \in Nat \ {0} /\ DirectoryHorizon \in Nat

VARIABLES
  accounts,  \* the rows of users by id: email and last_active_at
  signIn,    \* signIn[r]: what the sign-in in slot r has read and where it stands
  welcomed,  \* history: welcomed[a]: welcome mails to a
  seen       \* history: seen[a]: when a's account was last touched with success

directoryOwn == <<accounts, signIn, welcomed, seen>>
directoryVars == <<now, directoryOwn>>

-----------------------------------------------------------------------------
(***************************************************************************)
(* Identities.                                                             *)
(***************************************************************************)
\* An address as a provider spells it.
Texts == [address : Addresses, mixedCase : BOOLEAN]

\* No text, or one that is no bare address.
NoText == [address |-> "none", mixedCase |-> FALSE]

Credentials ==
  [email : Texts \cup {NoText}, verified : BOOLEAN, username : Texts \cup {NoText}]

GoogleEmail(c) == IF c.verified THEN c.email ELSE NoText

\* preferred_username stands in, if it is an address.
MicrosoftEmail(c) == IF c.email # NoText THEN c.email ELSE c.username

DevEmail(c) == c.email

\* NoText is a 401, or from the dev provider a 422.
IdentityOf(p, c) ==
  CASE p = "google" -> GoogleEmail(c)
    [] p = "microsoft" -> MicrosoftEmail(c)
    [] p = "dev" -> DevEmail(c)

-----------------------------------------------------------------------------
(***************************************************************************)
(* A sign-in.                                                              *)
(***************************************************************************)
NoSignIn == [at |-> "idle", email |-> "none", user |-> 0]

AtEmail(e) == {i \in DOMAIN accounts : accounts[i].email = e}

\* A provider that is not enabled is answered 404.
BeginSignIn(r, p) ==
  /\ signIn[r].at = "idle"
  /\ \E identity \in {IdentityOf(p, c) : c \in Credentials} \ {NoText} :
       signIn' = [signIn EXCEPT ![r] = [NoSignIn EXCEPT !.at = "known",
                                                        !.email = identity.address]]
  /\ UNCHANGED <<now, accounts, welcomed, seen>>

GetByEmail(r) ==
  /\ signIn[r].at = "known"
  /\ \/ /\ AtEmail(signIn[r].email) = {}
        /\ signIn' = [signIn EXCEPT ![r].at = "absent"]
     \/ \E i \in AtEmail(signIn[r].email) :
          signIn' = [signIn EXCEPT ![r].at = "found", ![r].user = i]
  /\ UNCHANGED <<now, accounts, welcomed, seen>>

Never == -1

NewAccount(e) == Append(accounts, [email |-> e, lastActive |-> Never])

Welcome(e) == welcomed' = [welcomed EXCEPT ![e] = @ + 1]

\* Mutant: the mail goes out before the INSERT, whatever becomes of it.
WelcomeFirst(r, e) ==
  /\ Welcome(e)
  /\ IF AtEmail(e) = {}
     THEN /\ accounts' = NewAccount(e)
          /\ signIn' = [signIn EXCEPT ![r].at = "found", ![r].user = Len(accounts) + 1]
     ELSE signIn' = [signIn EXCEPT ![r] = NoSignIn] /\ accounts' = accounts

\* UserStore.Create: the INSERT, and a SELECT of the row that may fail.  The unique key
\* on email refuses the later of two INSERTs: that sign-in fails, the next one finds
\* the account.
CreateAccount(r, e) ==
  \/ /\ AtEmail(e) = {}
     /\ accounts' = NewAccount(e)
     /\ \/ signIn' = [signIn EXCEPT ![r].at = "found", ![r].user = Len(accounts) + 1] /\ Welcome(e)
        \/ signIn' = [signIn EXCEPT ![r] = NoSignIn] /\ welcomed' = welcomed
  \/ /\ AtEmail(e) # {}
     /\ signIn' = [signIn EXCEPT ![r] = NoSignIn]
     /\ UNCHANGED <<accounts, welcomed>>

CreateUser(r) ==
  /\ signIn[r].at = "absent"
  /\ CreateAccount(r, signIn[r].email)
  /\ UNCHANGED <<now, seen>>

TouchDue(i) == accounts[i].lastActive = Never \/ accounts[i].lastActive < now - TouchEvery

\* One UPDATE; a failure is swallowed.
TouchLastActive(i) ==
  \/ /\ accounts' = IF TouchDue(i) THEN [accounts EXCEPT ![i].lastActive = now] ELSE accounts
     /\ seen' = [seen EXCEPT ![accounts[i].email] = now]
  \/ UNCHANGED <<accounts, seen>>

SignInTouch(r) ==
  /\ signIn[r].at = "found"
  /\ TouchLastActive(signIn[r].user)
  /\ signIn' = [signIn EXCEPT ![r].at = "in"]
  /\ UNCHANGED <<now, welcomed>>

\* The session begins, or fails with the memberships.
EndSignIn(r) ==
  /\ signIn[r].at = "in"
  /\ signIn' = [signIn EXCEPT ![r] = NoSignIn]
  /\ UNCHANGED <<now, accounts, welcomed, seen>>

\* AuthService.Refresh touches the account of its session as well.
RefreshTouch(i) == TouchLastActive(i) /\ UNCHANGED <<now, signIn, welcomed>>

-----------------------------------------------------------------------------
DirectoryTick == Advance(DirectoryHorizon) /\ UNCHANGED directoryOwn

DirectoryInit ==
  /\ accounts = <<>>
  /\ signIn = [r \in SignIns |-> NoSignIn]
  /\ welcomed = [a \in Addresses |-> 0]
  /\ seen = [a \in Addresses |-> Never]

DirectoryNext ==
  \/ \E r \in SignIns :
       \/ \E p \in Providers : BeginSignIn(r, p)
       \/ GetByEmail(r) \/ CreateUser(r) \/ SignInTouch(r) \/ EndSignIn(r)
  \/ \E i \in DOMAIN accounts : RefreshTouch(i)
  \/ DirectoryTick

DirectorySpec == now = 0 /\ DirectoryInit /\ [][DirectoryNext]_directoryVars

-----------------------------------------------------------------------------
\* Types of the rows and of the sign-ins.
DirectoryTypeOK ==
  /\ now \in 0 .. DirectoryHorizon
  /\ accounts \in Seq([email : Addresses, lastActive : {Never} \cup 0 .. DirectoryHorizon])
  /\ signIn \in [SignIns -> [at : {"idle", "known", "absent", "found", "in"},
                             email : Addresses \cup {"none"}, user : 0 .. Len(accounts)]]
  /\ welcomed \in [Addresses -> Nat]
  /\ seen \in [Addresses -> {Never} \cup 0 .. DirectoryHorizon]

\* However many first sign-ins of a person meet, with whatever provider and however
\* the address is spelled: the address has one account, all of them that go on are in
\* that account, and it is welcomed at most once, once it exists.
OneAccountPerAddress ==
  /\ \A i, j \in DOMAIN accounts : accounts[i].email = accounts[j].email => i = j
  /\ \A r \in SignIns : signIn[r].at \in {"found", "in"} =>
       signIn[r].user \in DOMAIN accounts /\ accounts[signIn[r].user].email = signIn[r].email
  /\ \A a \in Addresses : welcomed[a] <= Cardinality(AtEmail(a))

\* The throttle of last_active_at costs an hour at most: an account was not seen later
\* than an hour after the time shown, but for UPDATEs that failed.
LastActiveIsClose ==
  \A i \in DOMAIN accounts : LET last == seen[accounts[i].email] IN last # Never =>
    accounts[i].lastActive # Never /\ last - accounts[i].lastActive \in 0 .. TouchEvery

\* Both of what is promised of accounts.
AccountsAreSound == OneAccountPerAddress /\ LastActiveIsClose
=============================================================================
