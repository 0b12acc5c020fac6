----------------------------- MODULE Notifications -----------------------------
(***************************************************************************)
(* What one business operation sends out                                   *)
(* (notifications/notifications.service.ts, and the daily job's reminders, *)
(* dashboard/jobs/dashboard-jobs.service.ts).                              *)
(*                                                                         *)
(* A personal message goes through its channels one after the other: a row *)
(* of the Notification table, which may fail and then fails the caller;    *)
(* email, SMS and WhatsApp, whose errors are caught and reported as false. *)
(* A fan-out creates a row for every participant, or for every holder of a *)
(* role, at once and settles them all; a loop over the holders of a role   *)
(* stops at the first error.  Some messages read first whom they go to,    *)
(* outside any try: when the read rejects, the caller fails and nothing    *)
(* has been sent.  The process may die at any point of a call.  The caller *)
(* of a message that threw, or died, may call again, and so may the Credit *)
(* Manager, for a message of which one channel failed.                     *)
(***************************************************************************)
EXTENDS Naturals, Sequences, FiniteSets, HttpServer

CONSTANTS Addresses,        \* the addressees an application may have
          MaxCalls          \* bound: calls of the message

Slots == {"student", "initiator", "supporter", "checker", "approver"}

(* A user is no slot.                                                      *)
ASSUME AddressesAssumption == \A a \in Addresses : a.holders \cap Slots = {}
ASSUME MaxCallsAssumption == MaxCalls \in Nat

VARIABLES
    addressees, \* who fills each slot of the application, and the addresses
    twilio,     \* is Twilio configured?
    message,    \* the kind of message
    calls,      \* calls made so far
    spent,      \* of which this many are over without an error to their caller
    left,       \* of the call under way: the channels, in order, yet to be tried
    pending,    \* the slots a fan-out has yet to settle
    sent,       \* the channels and participants this call has reached
    warned,     \* the participants and channels this call has failed on
    received,   \* per channel and participant: how many messages got through
    ending      \* "reading" its recipients, "sending"; "returned", "threw", "died"

notifications == <<addressees, twilio, message, calls, spent, left, pending,
                   sent, warned, received, ending>>

-------------------------------------------------------------------------------
(* Messages.                                                               *)

SlotOrder == <<"student", "initiator", "supporter", "checker", "approver">>

(* The student's own row is the channel "row".                             *)
Channels == {"row", "email", "sms", "whatsapp", "parentSms", "parentWhatsapp"}

(* Mutant: the row is written when the rest has been sent.                 *)
RowLast(kind) ==
    IF kind = "rejected" THEN <<"email", "sms", "row">> ELSE <<"row", "email">>

(* The channels of a personal message, in the order of its code.           *)
ChannelsOf(kind) ==
    CASE kind = "readyToSign"  -> <<"row", "sms">>
      [] kind \in {"bankAccount", "submitted", "consent"} -> <<"row", "email">>
      [] kind = "rejected"     -> <<"row", "email", "sms">>
      [] kind \in {"finalized", "cleared"} ->
            <<"row", "email", "sms", "parentSms", "parentWhatsapp">>
      [] kind = "reminder"     -> <<"sms", "whatsapp", "row">>
      [] kind = "link"         -> <<"email">>

(* Generated documents, to the participants; a forwarded one, to a role.   *)
FanOuts == {"collegeDocument", "legalDocument", "forwarded"}

(* The Credit Managers, of installments overdue; the reviewers of a loan.  *)
Loops == {"overdue", "needsReview"}

Personal == {"readyToSign", "bankAccount", "submitted", "consent", "rejected",
             "finalized", "cleared", "reminder", "link"}

Kinds == Personal \cup FanOuts \cup Loops

(* The messages that read first whom they go to: the holders of a role, the *)
(* application, the installments due.                                      *)
ReadsFirst == {"forwarded", "rejected", "overdue", "needsReview", "reminder"}

(* The address a channel needs.                                            *)
Reachable(channel) ==
    CASE channel = "row"   -> addressees.student # NULL
      [] channel = "email" -> addressees.email
      [] channel \in {"sms", "whatsapp"} -> addressees.phone
      [] channel \in {"parentSms", "parentWhatsapp"} -> addressees.parentPhone

FilledSlots == {s \in Slots : addressees[s] # NULL}

(* fanOutToParticipants(): a user who fills two slots is told once.        *)
Participants ==
    {SlotOrder[i] : i \in
        {i \in 1..5 : /\ addressees[SlotOrder[i]] # NULL
                      /\ \A j \in 1..(i - 1) :
                            addressees[SlotOrder[j]] # addressees[SlotOrder[i]]}}

(* Whom a message of many recipients goes to: slots, or holders of a role. *)
Recipients ==
    IF message \in {"collegeDocument", "legalDocument"} THEN Participants
                                                       ELSE addressees.holders

Addressee(x) == IF x \in Slots THEN addressees[x] ELSE x

Everyone == {Addressee(s) : s \in FilledSlots} \cup addressees.holders

-------------------------------------------------------------------------------
(* Actions.                                                                *)

NotificationsInit ==
    /\ addressees \in Addresses
    /\ twilio \in BOOLEAN
    /\ message \in Kinds
    /\ calls = 0 /\ spent = 0
    /\ left = <<>> /\ pending = {} /\ sent = {} /\ warned = {}
    /\ received = [x \in Channels \cup Everyone |-> 0]
    /\ ending = "returned"

(* What a call sets out to do, once it knows the addressees.               *)
StartSending ==
    /\ ending' = "sending"
    /\ IF message \in Personal
       THEN left' = ChannelsOf(message) /\ pending' = {}
       ELSE pending' = Recipients /\ left' = <<>>

(* The business operation sends its message, or sends it again.            *)
Call ==
    /\ ending \in {"returned", "threw", "died"}
    /\ calls < MaxCalls
    /\ calls' = calls + 1
    /\ sent' = {} /\ warned' = {}
    /\ IF message \in ReadsFirst
       THEN ending' = "reading" /\ left' = <<>> /\ pending' = {}
       ELSE StartSending
    /\ UNCHANGED <<addressees, twilio, message, spent, received>>

(* The read of the addressees; when it rejects the caller gets the error.  *)
ReadRecipients ==
    /\ ending = "reading"
    /\ \/ StartSending
       \/ ending' = "threw" /\ UNCHANGED <<left, pending>>
    /\ UNCHANGED <<addressees, twilio, message, calls, spent, sent, warned,
                   received>>

Reach(x) ==
    /\ sent' = sent \cup {x}
    /\ received' = [received EXCEPT ![x] = @ + 1]
    /\ UNCHANGED warned

Miss(x) ==
    /\ warned' = warned \cup {x}
    /\ UNCHANGED <<sent, received>>

(* A channel for which there is no address is passed over.                 *)
PassOver ==
    /\ ending = "sending" /\ left # <<>> /\ ~Reachable(Head(left))
    /\ left' = Tail(left)
    /\ UNCHANGED <<addressees, twilio, message, calls, spent, pending, sent,
                   warned, received, ending>>

(* createDatabaseNotification() of a personal message; its error is the    *)
(* caller's.                                                               *)
CreateNotificationRow ==
    /\ ending = "sending" /\ left # <<>> /\ Head(left) = "row" /\ Reachable("row")
    /\ left' = Tail(left)
    /\ \/ Reach("row") /\ UNCHANGED ending
       \/ Miss("row") /\ ending' = "threw"
    /\ UNCHANGED <<addressees, twilio, message, calls, spent, pending>>

(* sendEmail(), sendSms(), sendWhatsapp(): the error is logged.            *)
ProviderFails(channel) == Miss(channel) /\ UNCHANGED ending

Send ==
    /\ ending = "sending" /\ left # <<>> /\ Head(left) # "row" /\ Reachable(Head(left))
    /\ left' = Tail(left)
    /\ \/ /\ Head(left) = "email" \/ twilio
          /\ Reach(Head(left)) /\ UNCHANGED ending
       \/ ProviderFails(Head(left))
    /\ UNCHANGED <<addressees, twilio, message, calls, spent, pending>>

StopAtError(x) == Miss(Addressee(x)) /\ pending' = {} /\ ending' = "threw"

(* Promise.allSettled: an error is logged, and the others go on.           *)
SettleFailed(x) ==
    Miss(Addressee(x)) /\ pending' = pending \ {x} /\ UNCHANGED ending

Settle(x) ==
    /\ ending = "sending" /\ x \in pending
    /\ \/ /\ Reach(Addressee(x))
          /\ pending' = pending \ {x} /\ UNCHANGED ending
       \/ message \in FanOuts /\ SettleFailed(x)
       \/ message \in Loops /\ StopAtError(x)
    /\ UNCHANGED <<addressees, twilio, message, calls, spent, left>>

Finished ==
    /\ ending = "sending" /\ left = <<>> /\ pending = {}
    /\ ending' = "returned"
    /\ spent' = spent + 1
    /\ UNCHANGED <<addressees, twilio, message, calls, left, pending, sent,
                   warned, received>>

(* The process dies: what was sent is sent, and nobody hears of the rest.  *)
Die ==
    /\ ending \in {"reading", "sending"}
    /\ ending' = "died"
    /\ spent' = spent + 1
    /\ UNCHANGED <<addressees, twilio, message, calls, left, pending, sent,
                   warned, received>>

NotificationsNext ==
    \/ Call \/ ReadRecipients \/ Die
    \/ PassOver \/ CreateNotificationRow \/ Send \/ Finished
    \/ \E x \in pending : Settle(x)

NotificationsSpec == NotificationsInit /\ [][NotificationsNext]_notifications

-------------------------------------------------------------------------------
(* Properties.                                                             *)

NotificationsTypeOK ==
    /\ addressees \in Addresses /\ twilio \in BOOLEAN /\ message \in Kinds
    /\ calls \in 0..MaxCalls /\ spent \in 0..calls
    /\ left \in Seq(Channels) /\ pending \subseteq Slots \cup Everyone
    /\ sent \subseteq Channels \cup Everyone /\ warned \subseteq Channels \cup Everyone
    /\ received \in [Channels \cup Everyone -> 0..calls]
    /\ ending \in {"reading", "sending", "returned", "threw", "died"}

(* A call that threw has delivered nothing, so calling again repeats       *)
(* nothing: whatever was received more than once was sent by calls that    *)
(* returned, or that died with the process.  The reminder is an exception, *)
(* its row comes last, and so are the loops.                               *)
RetryRepeatsNothing ==
    message \notin Loops \cup {"reminder"} =>
        \A x \in DOMAIN received :
            received[x] <= spent + (IF ending = "sending" THEN 1 ELSE 0)

(* A fan-out that returns has told every recipient or logged a warning     *)
(* (fanOutToParticipants, notifyLegalDocumentForwarded), whatever fails on *)
(* the way; it fails its caller only when the recipients of a forwarded    *)
(* document cannot be read, and then has told nobody.                      *)
EveryParticipantTold ==
    message \in FanOuts =>
        /\ ending = "threw" => message = "forwarded" /\ sent \cup warned = {}
        /\ ending = "returned" /\ calls > 0 =>
               {Addressee(x) : x \in Recipients} \subseteq sent \cup warned

(* What a mail or SMS provider does never fails the operation that sent    *)
(* the message; only the message's row in the database can, or the read of *)
(* whom it goes to before anything is sent                                 *)
(* (sendEmail, sendSms, sendWhatsapp).                                     *)
OnlyRowsThrow ==
    ending = "threw" =>
        \/ warned \cap ({"row"} \cup Everyone) # {}
        \/ message \in ReadsFirst /\ sent \cup warned = {}

(* What fails is reported, what succeeded is not repeated (the three       *)
(* above).                                                                 *)
DeliveredOrReported ==
    RetryRepeatsNothing /\ EveryParticipantTold /\ OnlyRowsThrow

===============================================================================
