------------------------------ MODULE WebAuthn ------------------------------
(***************************************************************************)
(* The ceremonies of internal/webauthn: begin stores a challenge under a   *)
(* session_id, the client has its authenticator answer it, and finish      *)
(* verifies the answer.  Every request is a goroutine, and every call of   *)
(* the database is a step; what go-webauthn computes is part of the step   *)
(* that read its input.  A failing call may have been applied.             *)
(*                                                                         *)
(* The users are never removed, so FindByID only fails or not.  The limit  *)
(* of failed attempts is LoginRateLimit, the life of an OTP session is     *)
(* OtpSessions.                                                            *)
(*                                                                         *)
(* Operators named after a fault stand beside the one they falsify; no     *)
(* action uses them.                                                       *)
(***************************************************************************)
EXTENDS Naturals, FiniteSets

CONSTANTS
  Users,
  Sessions,   \* session ids
  Creds,      \* credential ids
  Requests,   \* finish requests
  MaxCount,   \* bound: signatures of one authenticator
  None        \* no user, credential or session

ASSUME WebAuthnAssumption ==
  /\ MaxCount \in Nat
  /\ None \notin Users \cup Creds \cup Sessions

VARIABLES
  challenge,  \* webauthn_challenges
  device,     \* device_fingerprints, by credential id
  flagged,    \* the users with has_tpm
  otp,        \* the session ids under which an OTP session was created
  authent,    \* the authenticator of a credential: whether it counts its
              \* signatures, and how many it has counted
  signed,     \* answers of authenticators
  work        \* finish requests

CeremonyVars == <<challenge, device, flagged, otp, authent, signed, work>>

-----------------------------------------------------------------------------
(* Documents *)

\* A removed challenge keeps its contents, for the properties to speak of.
NoChallenge == [st |-> "unborn", type |-> "none", user |-> None, allowed |-> {}]

\* back: the stored count went down once.
NoDevice == [owner |-> None, count |-> 0, back |-> FALSE]

Enrolled(c) == device[c].owner # None
DevicesOf(u) == {c \in Creds : device[c].owner = u}

\* An answer to challenge s; "nothing" is what no authenticator has made.
Answer(s, c, n) == [sess |-> s, cred |-> c, count |-> n]
Nothing(s) == Answer(s, None, 0)

-----------------------------------------------------------------------------
(* Requests *)

\* What a request leaves for the properties: whether it saved the count and
\* failed to delete the challenge, and who was accepted before it came.
Idle == [pc |-> "new", type |-> "none",
         ans |-> Nothing(None),
         saved |-> FALSE, kept |-> FALSE, cloned |-> FALSE, after |-> {}]

Challenge(r) == challenge[work[r].ans.sess]
Credential(r) == device[work[r].ans.cred]

At(r, type, pc) == work[r].type = type /\ work[r].pc = pc

To(r, pc) == work' = [work EXCEPT ![r].pc = pc]

Accepted == {r \in Requests : work[r].pc = "accepted"}

\* DeleteOne of the challenge; nobody looks at its error.
Deleted(r, pc) ==
  \/ /\ challenge' = [challenge EXCEPT ![work[r].ans.sess].st = "gone"]
     /\ To(r, pc)
  \/ /\ work' = [work EXCEPT ![r].pc = pc, ![r].kept = TRUE]
     /\ UNCHANGED challenge

\* UpdateCounter of go-webauthn.
Backwards(n, stored) == n < stored
CloneWarning(n, stored) == n <= stored /\ (n # 0 \/ stored # 0)

-----------------------------------------------------------------------------
CeremonyInit ==
  /\ challenge = [s \in Sessions |-> NoChallenge]
  /\ \E owner \in [Creds -> Users \cup {None}] :
       /\ device = [c \in Creds |-> [NoDevice EXCEPT !.owner = owner[c]]]
       /\ flagged \in SUBSET {owner[c] : c \in {e \in Creds : owner[e] # None}}
  /\ otp = {}
  /\ authent \in [Creds -> [counts : BOOLEAN, n : {0}]]
  /\ signed = {}
  /\ work = [r \in Requests |-> Idle]

-----------------------------------------------------------------------------
(* begin *)

\* register/begin, for a user the orchestrator has vouched for.
BeginRegistration(s, u) ==
  /\ challenge[s].st = "unborn"
  /\ challenge' = [challenge EXCEPT ![s] =
       [st |-> "live", type |-> "registration", user |-> u, allowed |-> {}]]
  /\ UNCHANGED <<device, flagged, otp, authent, signed, work>>

\* login/begin of a user with devices, and with the right certificate.
BeginLogin(s, u) ==
  /\ challenge[s].st = "unborn"
  /\ DevicesOf(u) # {}
  /\ challenge' = [challenge EXCEPT ![s] =
       [st |-> "live", type |-> "authentication", user |-> u,
        allowed |-> DevicesOf(u)]]
  /\ UNCHANGED <<device, flagged, otp, authent, signed, work>>

\* login/begin of anybody else, or when something fails: a decoy.
BeginFakeLogin(s) ==
  /\ challenge[s].st = "unborn"
  /\ challenge' = [challenge EXCEPT ![s] =
       [st |-> "live", type |-> "authentication", user |-> None, allowed |-> {}]]
  /\ UNCHANGED <<device, flagged, otp, authent, signed, work>>

-----------------------------------------------------------------------------
(* The client *)

\* A new credential: its id is whatever the authenticator says.
Attest(s, c) ==
  /\ challenge[s].st = "live" /\ challenge[s].type = "registration"
  /\ signed' = signed \cup {Answer(s, c, authent[c].n)}
  /\ UNCHANGED <<challenge, device, flagged, otp, authent, work>>

\* A signature with one of the credentials that begin has named.
Sign(s, c) ==
  /\ challenge[s].st = "live" /\ c \in challenge[s].allowed
  /\ IF authent[c].counts
     THEN /\ authent[c].n < MaxCount
          /\ authent' = [authent EXCEPT ![c].n = @ + 1]
          /\ signed' = signed \cup {Answer(s, c, authent[c].n + 1)}
     ELSE /\ signed' = signed \cup {Answer(s, c, 0)}
          /\ UNCHANGED authent
  /\ UNCHANGED <<challenge, device, flagged, otp, work>>

\* A finish request, with an answer it has, or with none that is right.
Arrive(r, type, ans) ==
  /\ work[r].pc = "new"
  /\ challenge[ans.sess].st # "unborn"
  /\ work' = [work EXCEPT ![r] =
       [Idle EXCEPT !.pc = "find", !.type = type, !.ans = ans,
                    !.after = Accepted]]
  /\ UNCHANGED <<challenge, device, flagged, otp, authent, signed>>

-----------------------------------------------------------------------------
(* finish *)

\* FindBySessionID, the type of the ceremony, and the test for a decoy.
FindChallenge(r) ==
  /\ work[r].pc = "find"
  /\ \/ To(r, "failed")     \* an error, of this call or of FindByID
     \/ /\ Challenge(r).st = "live" /\ Challenge(r).type = work[r].type
        /\ To(r, IF Challenge(r).type = "authentication"
                    /\ Challenge(r).user = None THEN "decoy" ELSE "verify")
  /\ UNCHANGED <<challenge, device, flagged, otp, authent, signed>>

\* The challenge of a decoy, or of what looks like a clone, is deleted.
RefuseDecoy(r) ==
  /\ At(r, "authentication", "decoy")
  /\ Deleted(r, "failed")
  /\ UNCHANGED <<device, flagged, otp, authent, signed>>

RefuseClone(r) ==
  /\ At(r, "authentication", "clone")
  /\ Deleted(r, "failed")
  /\ UNCHANGED <<device, flagged, otp, authent, signed>>

\* ListByUser and wa.FinishLogin; an error of the former leaves no credential
\* to verify with.
Verified(r) ==
  /\ work[r].ans \in signed
  /\ work[r].ans.cred \in Challenge(r).allowed
  /\ Credential(r).owner = Challenge(r).user

VerifyLogin(r) ==
  /\ At(r, "authentication", "verify")
  /\ \/ To(r, "failed")
     \/ /\ Verified(r)
        /\ IF CloneWarning(work[r].ans.count, Credential(r).count)
           THEN work' = [work EXCEPT ![r].pc = "clone", ![r].cloned = TRUE]
           ELSE To(r, "save")
  /\ UNCHANGED <<challenge, device, flagged, otp, authent, signed>>

CountsTwice(r) ==
  /\ At(r, "authentication", "save")
  /\ device' = [device EXCEPT ![work[r].ans.cred].count = work[r].ans.count + 1]
  /\ work' = [work EXCEPT ![r].pc = "delete", ![r].saved = TRUE]
  /\ UNCHANGED <<challenge, flagged, otp, authent, signed>>

\* UpdateCredential; its error is only logged.
SaveCount(r) ==
  /\ At(r, "authentication", "save")
  /\ \/ /\ device' = [device EXCEPT ![work[r].ans.cred] =
             [owner |-> @.owner, count |-> work[r].ans.count,
              back |-> @.back \/ work[r].ans.count < @.count]]
        /\ work' = [work EXCEPT ![r].pc = "delete", ![r].saved = TRUE]
     \/ UNCHANGED device /\ To(r, "delete")
  /\ UNCHANGED <<challenge, flagged, otp, authent, signed>>

KeepsChallenge(r) ==
  /\ At(r, "authentication", "delete")
  /\ To(r, "otp")
  /\ UNCHANGED <<challenge, device, flagged, otp, authent, signed>>

DeleteChallenge(r) ==
  /\ At(r, "authentication", "delete")
  /\ Deleted(r, "otp")
  /\ UNCHANGED <<device, flagged, otp, authent, signed>>

\* OTP.Create under the session_id, whose error is ignored; the code is mailed
\* and the client told to enter it.
CreateOTP(r) ==
  /\ At(r, "authentication", "otp")
  /\ otp' \in {otp, otp \cup {work[r].ans.sess}}
  /\ To(r, "accepted")
  /\ UNCHANGED <<challenge, device, flagged, authent, signed>>

\* wa.FinishRegistration.
VerifyRegistration(r) ==
  /\ At(r, "registration", "verify")
  /\ \/ To(r, "failed")
     \/ work[r].ans \in signed /\ To(r, "enroll")
  /\ UNCHANGED <<challenge, device, flagged, otp, authent, signed>>

\* devices.Create: the credential id is unique.
NewDevice(r) ==
  /\ ~Enrolled(work[r].ans.cred)
  /\ device' = [device EXCEPT ![work[r].ans.cred] =
       [owner |-> Challenge(r).user, count |-> work[r].ans.count, back |-> FALSE]]

EnrollAgain(r) ==
  /\ At(r, "registration", "enroll")
  /\ To(r, "flag")
  /\ NewDevice(r) \/ (Enrolled(work[r].ans.cred) /\ UNCHANGED device)
  /\ UNCHANGED <<challenge, flagged, otp, authent, signed>>

Enroll(r) ==
  /\ At(r, "registration", "enroll")
  /\ \/ NewDevice(r) /\ \E pc \in {"flag", "failed"} : To(r, pc)
     \/ UNCHANGED device /\ To(r, "failed")
  /\ UNCHANGED <<challenge, flagged, otp, authent, signed>>

\* MarkTPMEnrolled.
Flag(r) ==
  /\ At(r, "registration", "flag")
  /\ \/ /\ flagged' = flagged \cup {Challenge(r).user}
        /\ \E pc \in {"clean", "failed"} : To(r, pc)
     \/ UNCHANGED flagged /\ To(r, "failed")
  /\ UNCHANGED <<challenge, device, otp, authent, signed>>

CleanRegistration(r) ==
  /\ At(r, "registration", "clean")
  /\ Deleted(r, "registered")
  /\ UNCHANGED <<device, flagged, otp, authent, signed>>

-----------------------------------------------------------------------------
(* Around them *)

\* The TTL index removes a challenge after five minutes, used or not.
TtlDelete(s) ==
  /\ challenge[s].st = "live"
  /\ challenge' = [challenge EXCEPT ![s].st = "gone"]
  /\ UNCHANGED <<device, flagged, otp, authent, signed, work>>

Answered == {"failed", "accepted", "registered"}

\* The process stops and loses the requests it was serving.
Restart ==
  /\ \E r \in Requests : work[r].pc \notin Answered \cup {"new"}
  /\ work' = [r \in Requests |->
       IF work[r].pc \in Answered \cup {"new"} THEN work[r]
                                            ELSE [work[r] EXCEPT !.pc = "failed"]]
  /\ UNCHANGED <<challenge, device, flagged, otp, authent, signed>>

Handle(r) ==
  \/ FindChallenge(r) \/ RefuseDecoy(r) \/ RefuseClone(r)
  \/ VerifyLogin(r) \/ SaveCount(r) \/ DeleteChallenge(r) \/ CreateOTP(r)
  \/ VerifyRegistration(r) \/ Enroll(r) \/ Flag(r) \/ CleanRegistration(r)

\* All requests are answered and nothing is left to expire.
Finished ==
  /\ \A r \in Requests : work[r].pc \in Answered
  /\ \A s \in Sessions : challenge[s].st = "gone"
  /\ UNCHANGED CeremonyVars

CeremonyNext ==
  \/ \E s \in Sessions :
       \/ \E u \in Users : BeginRegistration(s, u) \/ BeginLogin(s, u)
       \/ \E c \in Creds : Attest(s, c) \/ Sign(s, c)
       \/ BeginFakeLogin(s) \/ TtlDelete(s)
  \/ \E r \in Requests, type \in {"registration", "authentication"} :
       \E ans \in signed \cup {Nothing(s) : s \in Sessions} : Arrive(r, type, ans)
  \/ \E r \in Requests : Handle(r)
  \/ Restart \/ Finished

CeremonySpec == CeremonyInit /\ [][CeremonyNext]_CeremonyVars

-----------------------------------------------------------------------------
(* Properties *)

\* A challenge lets one login through.  Another one is accepted with it only
\* if it had arrived before the first was answered, or if the deletion of the
\* challenge failed then.
ChallengeUsedOnce ==
  \A r \in Accepted : \A q \in work[r].after :
    work[q].ans.sess = work[r].ans.sess => work[q].kept

\* Logins with an authenticator that counts, one after the other, come with
\* growing counts, so a copied answer is refused even where its challenge is
\* still there; unless the count of the earlier one was not saved, or a later
\* save has put back an older count.
CountsIncrease ==
  \A r \in Accepted : \A q \in work[r].after :
    (/\ work[q].type = "authentication"
     /\ work[q].ans.cred = work[r].ans.cred
     /\ authent[work[r].ans.cred].counts
     /\ work[q].saved /\ ~Credential(r).back)
      => work[q].ans.count < work[r].ans.count

\* An answer is taken for that of a clone only if it, or a later one of the
\* same authenticator, has come with another login that saved its count: who
\* sends the answers in their order, each once, is not refused.
CloneWarningExplained ==
  \A r \in Requests : work[r].cloned =>
    \E q \in Requests \ {r} : /\ work[q].type = "authentication"
                              /\ work[q].saved
                              /\ work[q].ans.cred = work[r].ans.cred
                              /\ work[q].ans.count >= work[r].ans.count

\* Who is told "registered" owns the credential and has the flag, also when
\* the same credential is sent twice or by two users; and nobody has the flag
\* without a device.
RegisteredIsBound ==
  /\ \A r \in Requests : work[r].pc = "registered" =>
       Credential(r).owner = Challenge(r).user /\ Challenge(r).user \in flagged
  /\ \A u \in flagged : DevicesOf(u) # {}
=============================================================================
