------------------------------ MODULE Pairing ------------------------------
(***************************************************************************)
(* Pairing a device with a six-digit code: the settings window asks the    *)
(* tray to open a session, devices upgrade on the pairing path, send one   *)
(* code each, and the right one is given the credential with which it may  *)
(* then open a control connection.  The session is shared by the tray      *)
(* thread and the server thread behind a lock; everything between two      *)
(* lock acquisitions may interleave.                                       *)
(***************************************************************************)
EXTENDS Naturals

CONSTANTS
  Device,        \* clients of the server
  MaxAttempts,   \* MAX_PAIRING_ATTEMPTS
  MaxSessions,   \* bound on the codes the user asks for
  MaxTries       \* bound on the pairing connections of one device

ASSUME PairingBounds ==
  MaxAttempts \in Nat \ {0} /\ MaxSessions \in Nat /\ MaxTries \in Nat

VARIABLES
  session,     \* PairingState.session: NoSession or [id, failed]
  nextId,      \* PairingState.next_session_id
  asked,       \* the synchronous WM_BEGIN_PAIRING on its way to the tray
  posted,      \* WM_CANCEL_PAIRING messages posted to the tray
  shown,       \* the code on display in the settings window, 0 for none
  link,        \* for each device, its pairing connection
  upgradedFor, \* pairing_session_id of that connection
  tries,       \* connections each device has made
  knows,       \* devices that were given the credential
  admitted,    \* devices with a control connection
  given,       \* for each session, how often the credential left the lock
  guesses,     \* for each session, wrong codes counted by its connections
  voided,        \* sessions cancelled or replaced
  lapsed       \* sessions past their expires_at

pairVars == <<session, nextId, asked, posted, shown, link, upgradedFor, tries,
              knows, admitted, given, guesses, voided, lapsed>>

deviceVars == <<link, upgradedFor, tries, knows, admitted>>

NoSession == [id |-> 0, failed |-> 0]

PairInit ==
  /\ session = NoSession
  /\ nextId = 0
  /\ asked = FALSE
  /\ posted = 0
  /\ shown = 0
  /\ link = [d \in Device |-> "none"]
  /\ upgradedFor = [d \in Device |-> 0]
  /\ tries = [d \in Device |-> 0]
  /\ knows = {}
  /\ admitted = {}
  /\ given = [i \in 1 .. MaxSessions |-> 0]
  /\ guesses = [i \in 1 .. MaxSessions |-> 0]
  /\ voided = {}
  /\ lapsed = {}

\* PairingHandle::begin_until: a new id, the previous session is replaced.
OpenSession ==
  /\ nextId' = nextId + 1
  /\ session' = [id |-> nextId + 1, failed |-> 0]
  /\ voided' = voided \cup 1 .. nextId

-----------------------------------------------------------------------------
(* The settings window, a process of its own *)

\* begin_pairing sends a fresh code and waits for the tray.
AskForCode ==
  /\ ~asked /\ shown = 0 /\ nextId < MaxSessions
  /\ asked' = TRUE
  /\ UNCHANGED <<session, nextId, posted, shown, deviceVars, given, guesses, voided, lapsed>>

\* SendMessageTimeoutW gives up after a second; the message may still arrive.
AskTimesOut ==
  /\ asked /\ asked' = FALSE
  /\ OpenSession \/ UNCHANGED <<session, nextId, voided>>
  /\ UNCHANGED <<posted, shown, deviceVars, given, guesses, lapsed>>

\* cancel_pairing, and closing the window, only post a message.
CancelCode ==
  /\ shown # 0 /\ shown' = 0
  /\ posted' = posted + 1
  /\ UNCHANGED <<session, nextId, asked, deviceVars, given, guesses, voided, lapsed>>

-----------------------------------------------------------------------------
(* The tray thread *)

\* WM_BEGIN_PAIRING; a sent message overtakes the posted ones.
BeginPairing ==
  /\ asked
  /\ OpenSession
  /\ asked' = FALSE
  /\ shown' = nextId + 1
  /\ UNCHANGED <<posted, deviceVars, given, guesses, lapsed>>

\* WM_CANCEL_PAIRING.
CancelPairing ==
  /\ posted > 0 /\ ~asked
  /\ posted' = posted - 1
  /\ session' = NoSession
  /\ voided' = voided \cup 1 .. nextId
  /\ UNCHANGED <<nextId, asked, shown, deviceVars, given, guesses, lapsed>>

\* Five minutes pass: nothing changes until the session is next looked at.
CodeExpires ==
  /\ session # NoSession /\ session.id \notin lapsed
  /\ lapsed' = lapsed \cup {session.id}
  /\ UNCHANGED <<session, nextId, asked, posted, shown, deviceVars, given, guesses,
                 voided>>

\* Mutant: an expired session is still offered.
LiveOrLapsed == session

\* session_id and is_open drop an expired session.
Live == IF session.id \in lapsed THEN NoSession ELSE session

\* WM_PAIRING_STATUS: the window stops showing a code that is no longer open, and
\* whenever it stops showing one it posts a cancellation.
AskStatus ==
  /\ shown # 0
  /\ session' = Live
  /\ IF Live = NoSession THEN shown' = 0 /\ posted' = posted + 1
     ELSE UNCHANGED <<shown, posted>>
  /\ UNCHANGED <<nextId, asked, deviceVars, given, guesses, voided, lapsed>>

-----------------------------------------------------------------------------
(* The server thread *)

\* authorize_upgrade on the pairing path: refused without an open session,
\* otherwise the connection belongs to the session of this moment.
UpgradeToPair(d) ==
  /\ link[d] = "none" /\ tries[d] < MaxTries
  /\ tries' = [tries EXCEPT ![d] = @ + 1]
  /\ session' = Live
  /\ IF Live = NoSession THEN UNCHANGED <<link, upgradedFor>>
     ELSE /\ link' = [link EXCEPT ![d] = "waiting"]
          /\ upgradedFor' = [upgradedFor EXCEPT ![d] = Live.id]
  /\ UNCHANGED <<nextId, asked, posted, shown, knows, admitted, given, guesses, voided, lapsed>>

\* The one request does not come in time, is malformed, or the server stops.
PairingEnds(d) ==
  /\ link[d] = "waiting"
  /\ link' = [link EXCEPT ![d] = "none"]
  /\ UNCHANGED <<session, nextId, asked, posted, shown, upgradedFor, tries, knows,
                 admitted, given, guesses, voided, lapsed>>

\* Mutant: a code is compared with whatever session is open.
AddressedAny(d) == Live # NoSession

\* The session a code of this connection is compared with.
Addressed(d) == Live # NoSession /\ Live.id = upgradedFor[d]

\* The session after a wrong code.
AfterWrongCode(s) ==
  IF s.failed + 1 >= MaxAttempts THEN NoSession ELSE [s EXCEPT !.failed = @ + 1]

\* PairingHandle::attempt with a wrong code, or for another session.
WrongCode(d) ==
  /\ link[d] = "waiting"
  /\ session' = IF Addressed(d) THEN AfterWrongCode(Live) ELSE Live
  /\ guesses' = IF Addressed(d) THEN [guesses EXCEPT ![upgradedFor[d]] = @ + 1]
                ELSE guesses
  /\ link' = [link EXCEPT ![d] = "none"]
  /\ UNCHANGED <<nextId, asked, posted, shown, upgradedFor, tries, knows, admitted,
                 given, voided, lapsed>>

\* The session after the right code: it is taken.
AfterRightCode == NoSession

\* PairingHandle::attempt with the code of the connection's session; the
\* credential is lost when the answer cannot be written.
RightCode(d) ==
  /\ link[d] = "waiting"
  /\ IF Addressed(d)
       THEN /\ session' = AfterRightCode
            /\ given' = [given EXCEPT ![upgradedFor[d]] = @ + 1]
            /\ knows' \in {knows, knows \cup {d}}
       ELSE session' = Live /\ UNCHANGED <<given, knows>>
  /\ link' = [link EXCEPT ![d] = "none"]
  /\ UNCHANGED <<nextId, asked, posted, shown, upgradedFor, tries, admitted,
                 guesses, voided, lapsed>>

\* authorize_upgrade on the control path of a server with a credential: the
\* bearer must match; with it the Origin header does not matter.
Authenticated(d) == d \in knows

UpgradeToControl(d) ==
  /\ d \notin admitted
  /\ Authenticated(d)
  /\ admitted' = admitted \cup {d}
  /\ UNCHANGED <<session, nextId, asked, posted, shown, link, upgradedFor, tries,
                 knows, given, guesses, voided, lapsed>>

-----------------------------------------------------------------------------
PairNext ==
  \/ AskForCode \/ AskTimesOut \/ CancelCode \/ BeginPairing \/ CancelPairing
  \/ CodeExpires \/ AskStatus
  \/ \E d \in Device :
       UpgradeToPair(d) \/ PairingEnds(d) \/ WrongCode(d) \/ RightCode(d)
         \/ UpgradeToControl(d)

PairSpec == PairInit /\ [][PairNext]_pairVars

-----------------------------------------------------------------------------
(* Properties *)

PairTypeOK ==
  /\ session \in [id : 0 .. MaxSessions, failed : 0 .. MaxAttempts]
  /\ nextId \in 0 .. MaxSessions
  /\ asked \in BOOLEAN /\ posted \in 0 .. MaxSessions /\ shown \in 0 .. nextId
  /\ link \in [Device -> {"none", "waiting"}]
  /\ upgradedFor \in [Device -> 0 .. nextId]
  /\ tries \in [Device -> 0 .. MaxTries]
  /\ admitted \subseteq knows /\ knows \subseteq Device
  /\ voided \cup lapsed \subseteq 1 .. nextId

\* A code is good for one credential, and for fewer than MaxAttempts wrong
\* guesses while it is open, however many connections race with it (README: "is
\* invalidated by one successful exchange, and is disabled after five failed
\* attempts").
CodesUsedUp ==
  \A i \in 1 .. MaxSessions :
    /\ given[i] <= 1
    /\ session.id = i => given[i] = 0 /\ guesses[i] < MaxAttempts
    /\ guesses[i] <= MaxAttempts

\* Only guesses made for the open session count against it: connections of an
\* earlier code cannot use up the attempts of the new one.
GuessesChargedRight == session # NoSession => session.failed = guesses[session.id]

\* The credential is never given for a code that was cancelled, replaced or had
\* expired (README: "Starting a new code invalidates the previous one").
NoCredentialForDeadCode ==
  [][\A i \in 1 .. MaxSessions : given'[i] # given[i] => i \notin voided \cup lapsed]_pairVars

\* A code is used up as promised, by its own guesses only.
PairingSound == PairTypeOK /\ CodesUsedUp /\ GuessesChargedRight
=============================================================================
