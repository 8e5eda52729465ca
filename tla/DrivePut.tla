------------------------------ MODULE DrivePut ------------------------------
(***************************************************************************)
(* putOwnedCiphertext of src/src/google/drive.ts: a POST that creates a    *)
(* file and a GET that reads it back, over a network that loses answers    *)
(* and a provider that may refuse, garble or delay.  Nothing identifies a  *)
(* POST to the provider, so that each one that arrives makes a new file;   *)
(* a retry is another call.                                                *)
(*                                                                         *)
(* The provider answers a POST with a status of 300 to 499 only if it has  *)
(* stored nothing, and a file is changed by others only as a whole.        *)
(***************************************************************************)
EXTENDS Naturals

CONSTANTS Puts, Accounts   \* calls; Google accounts

(* Answers that are not 2xx, as far as classifyDriveError tells them apart.*)
Statuses == {"denied", "quota", "redirect", "client", "server"}

(* A file is as the put gave it, or other bytes of the same or of another  *)
(* length.                                                                 *)
Bytes == {"same", "other", "short"}

VARIABLES
  account, wanted,   \* of the credentials; the one the session is to be for
  session,
  pc, returned,       \* of each call
  post,              \* what became of its POST
  body,              \* what its GET has been answered with
  file,              \* the file it created, as it is now
  changed            \* files others have changed since the GET was answered

provider == <<post, body, file, changed>>
putVars == <<account, wanted, session, pc, returned, provider>>

Codes == {"INPUT", "AUTH", "QUOTA", "REDIRECT", "CREATE", "INCOMPLETE", "READBACK"}

PutTypeOK ==
  /\ {account, wanted} \subseteq Accounts
  /\ session \in {"none", "bound", "refused"}
  /\ pc \in [Puts -> {"idle", "creating", "reading", "done"}]
  /\ returned \in [Puts -> {"none", "receipt"} \cup Codes]
  /\ post \in [Puts -> {"unsent", "sent", "created", "created short"} \cup Statuses]
  /\ body \in [Puts -> {"none"} \cup Bytes \cup Statuses]
  /\ file \in [Puts -> {"none"} \cup Bytes]
  /\ changed \subseteq Puts

PutInit ==
  /\ account \in Accounts /\ wanted \in Accounts /\ session = "none"
  /\ pc = [c \in Puts |-> "idle"] /\ returned = [c \in Puts |-> "none"]
  /\ post = [c \in Puts |-> "unsent"] /\ body = [c \in Puts |-> "none"]
  /\ file = [c \in Puts |-> "none"] /\ changed = {}

-----------------------------------------------------------------------------
(* createGoogleDriveAdapterFromAuthClient: asks the provider which account *)
(* the credentials are for.  That answer may be lost, too.                 *)
Session(s) == session = "none" /\ session' = s /\ UNCHANGED <<account, wanted, pc, returned, provider>>

Bind      == Session(IF account = wanted THEN "bound" ELSE "refused")
BindFails == Session("refused")

-----------------------------------------------------------------------------
(* Bug: an error of the server counts as if nothing had been created.      *)
ClassifyServerAsCreate(status, phase) ==
  [denied   |-> "AUTH", quota |-> "QUOTA", redirect |-> "REDIRECT",
   client   |-> IF phase = "create" THEN "CREATE" ELSE "READBACK",
   server   |-> IF phase = "create" THEN "CREATE" ELSE "READBACK"][status]

(* classifyDriveError.                                                     *)
Classify(status, phase) ==
  [denied   |-> "AUTH", quota |-> "QUOTA", redirect |-> "REDIRECT",
   client   |-> IF phase = "create" THEN "CREATE" ELSE "READBACK",
   server   |-> IF phase = "create" THEN "INCOMPLETE" ELSE "READBACK"][status]

End(c, code) == pc' = [pc EXCEPT ![c] = "done"] /\ returned' = [returned EXCEPT ![c] = code]
OnlyCalls == UNCHANGED <<account, wanted, session, provider>>

(* Bytes that do not have the digest they come with, or are no package.    *)
PutRefused(c) ==
  /\ session = "bound" /\ pc[c] = "idle"
  /\ End(c, "INPUT") /\ OnlyCalls

PutPosts(c) ==
  /\ session = "bound" /\ pc[c] = "idle"
  /\ pc' = [pc EXCEPT ![c] = "creating"] /\ post' = [post EXCEPT ![c] = "sent"]
  /\ UNCHANGED <<account, wanted, session, returned, body, file, changed>>

(* The answer must have an id and the right size.                          *)
CreateAnswered(c) ==
  /\ pc[c] = "creating" /\ post[c] \notin {"unsent", "sent"}
  /\ \/ post[c] \in Statuses /\ End(c, Classify(post[c], "create"))
     \/ post[c] = "created short" /\ End(c, "INCOMPLETE")
     \/ post[c] = "created" /\ pc' = [pc EXCEPT ![c] = "reading"] /\ UNCHANGED returned
  /\ OnlyCalls

(* The network fails, time is up, or the answer is too long or garbled.    *)
CreateFails(c) == pc[c] = "creating" /\ End(c, "INCOMPLETE") /\ OnlyCalls

(* Bug: a file as long as the package is taken for the package.            *)
ReadAnsweredBySize(c) ==
  /\ pc[c] = "reading" /\ body[c] # "none"
  /\ End(c, IF body[c] \in Statuses THEN Classify(body[c], "read")
            ELSE IF body[c] = "short" THEN "READBACK" ELSE "receipt")
  /\ OnlyCalls

(* Length and digest of what is read must be those of the package.         *)
ReadAnswered(c) ==
  /\ pc[c] = "reading" /\ body[c] # "none"
  /\ End(c, IF body[c] \in Statuses THEN Classify(body[c], "read")
            ELSE IF body[c] = "same" THEN "receipt" ELSE "READBACK")
  /\ OnlyCalls

(* Bug: only the POST has a timeout.                                       *)
ReadFailsIfAnswered(c) ==
  pc[c] = "reading" /\ body[c] # "none" /\ End(c, "READBACK") /\ OnlyCalls

ReadFails(c) == pc[c] = "reading" /\ End(c, "READBACK") /\ OnlyCalls

-----------------------------------------------------------------------------
(* The provider, and whoever else has access to the files.  A POST may     *)
(* arrive when its call has long given up.                                 *)
OnlyProvider == UNCHANGED <<account, wanted, session, pc, returned>>

Store(c) ==
  /\ post[c] = "sent"
  /\ \E b \in Bytes :
       /\ file' = [file EXCEPT ![c] = b]
       /\ \E a \in {IF b = "short" THEN "created short" ELSE "created", "server"} :
            post' = [post EXCEPT ![c] = a]
  /\ UNCHANGED <<body, changed>> /\ OnlyProvider

RefusePost(c) ==
  /\ post[c] = "sent"
  /\ \E s \in Statuses : post' = [post EXCEPT ![c] = s]
  /\ UNCHANGED <<body, file, changed>> /\ OnlyProvider

(* The file as it is, bytes damaged on the way, or an error.               *)
Serve(c) ==
  /\ pc[c] = "reading" /\ body[c] = "none"
  /\ \E b \in {"other", "short"} \cup Statuses \cup
              {IF file[c] = "none" THEN "client" ELSE file[c]} :
       body' = [body EXCEPT ![c] = b]
  /\ changed' = changed \ {c}
  /\ UNCHANGED <<post, file>> /\ OnlyProvider

Change(c) ==
  /\ file[c] # "none"
  /\ \E b \in Bytes \cup {"none"} : file' = [file EXCEPT ![c] = b]
  /\ changed' = changed \cup {c}
  /\ UNCHANGED <<post, body>> /\ OnlyProvider

-----------------------------------------------------------------------------
Create(c) == CreateAnswered(c) \/ CreateFails(c)
Read(c)   == ReadAnswered(c) \/ ReadFails(c)
Provider(c) == Store(c) \/ RefusePost(c) \/ Serve(c) \/ Change(c)

PutNext ==
  \/ Bind \/ BindFails
  \/ \E c \in Puts : PutRefused(c) \/ PutPosts(c) \/ Create(c) \/ Read(c) \/ Provider(c)

PutSpec == PutInit /\ [][PutNext]_putVars

(* Every request has a timeout (the auth client's, not an injected         *)
(* transport's), of both its phases.                                       *)
FairPutSpec == PutSpec /\ \A c \in Puts : WF_putVars(Create(c)) /\ WF_putVars(Read(c))

-----------------------------------------------------------------------------
(***************************************************************************)
(* Properties.                                                             *)
(***************************************************************************)

(* A receipt is of the account the session was to be for, and of a file    *)
(* that is the package, unless others changed it after it was read back:   *)
(* neither a provider that stores or serves something else nor changes     *)
(* between the POST and the GET get a receipt.                             *)
ReceiptsHold ==
  \A c \in Puts : returned[c] = "receipt" =>
    account = wanted /\ (c \in changed \/ file[c] = "same")

(* The codes tell a caller that thinks of a retry what there may be: after *)
(* INPUT and CREATE no file, and none will appear when a delayed POST      *)
(* arrives; after READBACK one has been created.  The other codes tell     *)
(* nothing: AUTH, QUOTA and REDIRECT may come from the GET.                *)
CodesTellWhatIsStored ==
  \A c \in Puts :
    /\ returned[c] \in {"INPUT", "CREATE"} => file[c] = "none" /\ post[c] # "sent"
    /\ returned[c] = "READBACK" => post[c] = "created"

(* A call returns, also if the provider never answers.                     *)
PutsReturn == \A c \in Puts : pc[c] \in {"creating", "reading"} ~> pc[c] = "done"

-----------------------------------------------------------------------------
(***************************************************************************)
(* The inductive invariant GoogleProofs uses.                            *)
(***************************************************************************)
(* Calls are made in a session of the right account only.                  *)
CallsAreBound ==
  /\ session = "bound" => account = wanted
  /\ \A c \in Puts : pc[c] # "idle" => session = "bound"

ReturnedIsLast == \A c \in Puts : returned[c] # "none" <=> pc[c] = "done"

(* What a call knows of its file.                                          *)
PostAnswered ==
  \A c \in Puts :
    /\ pc[c] = "idle" => post[c] = "unsent"
    /\ pc[c] = "reading" => post[c] = "created"
    /\ body[c] # "none" => post[c] = "created"
    /\ post[c] \in {"unsent", "sent", "denied", "quota", "redirect", "client"} => file[c] = "none"
ReadIsCurrent ==
  \A c \in Puts : body[c] = "same" => c \in changed \/ file[c] = "same"
ReceiptsAreRead == \A c \in Puts : returned[c] = "receipt" => body[c] = "same"

PutInv ==
  /\ PutTypeOK /\ CallsAreBound /\ ReturnedIsLast /\ PostAnswered /\ ReadIsCurrent
  /\ ReceiptsAreRead /\ CodesTellWhatIsStored
=============================================================================
