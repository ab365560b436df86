----------------------------- MODULE SpamFolder -----------------------------
(***************************************************************************)
(* The mail of one user: delivery by Dovecot through spam.sieve, the mail  *)
(* client that reads the Spam folder and moves messages into it and out of *)
(* it, and what rspamd is taught by these moves (dovecot.conf,             *)
(* learn-spam.sieve, learn-ham.sieve).  Dovecot, the client and rspamd are *)
(* external.                                                               *)
(*                                                                         *)
(* Spam is a Maildir: a message is a file in new or cur whose name ends in *)
(* its flags.  Reading a message, and a client that looks at the folder,   *)
(* renames the file; a message that is moved is copied to a new file, with *)
(* the date of the old one, and the old file goes away.                    *)
(***************************************************************************)
EXTENDS Integers

CONSTANTS
    Messages,
    Mail,           \* for each message its headers: xSpam (the values of its
                    \*   X-Spam headers), xSpamRead (the one that the email
                    \*   crate reads), scored (X-Spamd-Result and From can be
                    \*   read), score, address, domain
    LearningFails   \* whether rspamc may fail

\* A value of X-Spam: just that, one that contains it in some spelling, or none
\* of these.  rspamd writes "Yes"; a message may bring along others.
XSpamValue == { "Yes", "like Yes", "other" }

\* The crate returns one of several headers, or "none" if it cannot read any.
ASSUME MailAssumption ==
    /\ Mail \in [Messages -> [xSpam : SUBSET XSpamValue,
                             xSpamRead : XSpamValue \cup { "none" },
                             scored : BOOLEAN, score : Int,
                             address : STRING, domain : STRING]]
    /\ \A m \in Messages : Mail[m].xSpamRead \in Mail[m].xSpam \cup { "none" }

VARIABLES
    place,          \* "none" before delivery, "out" in any other folder, "new",
                    \*   "cur" or "seen" in Spam, "gone" once it is expunged
    copy,           \* how often the message was put into Spam
    received,       \* the date of its file
    taught,         \* the last lesson rspamd got from a move: "none", "spam",
                    \*   "ham", or "missed"
    clientSteps     \* deliveries and steps of the client left (a bound)

folderVars == << place, copy, received, taught, clientSteps >>

InSpam == { "new", "cur", "seen" }

FolderTypeOK ==
    /\ place \in [Messages -> { "none", "out", "gone" } \cup InSpam]
    /\ copy \in [Messages -> Nat]
    /\ received \in [Messages -> Nat]
    /\ taught \in [Messages -> { "none", "spam", "ham", "missed" }]
    /\ clientSteps \in Nat

\* header :contains "X-Spam" "Yes": any of the headers, anywhere in its value,
\* and whatever the case (RFC 5228).
ContainsYes(m) == Mail[m].xSpam \cap { "Yes", "like Yes" } # {}

\* Mutant of Filed: spam.sieve files every message.
FiledAlways(m) == "new"

\* spam.sieve, which runs before the user's own script.
Filed(m) == IF ContainsYes(m) THEN "new" ELSE "out"

\* Mutant of Learns: imapsieve_from runs the script of the mailbox.
LearnsSpamAlways(m, lesson) ==
    taught' = [taught EXCEPT ![m] = "spam"]

\* imapsieve pipes the message to rspamc once it is copied; when that fails the
\* copy stays.
Learns(m, lesson) ==
    \/ taught' = [taught EXCEPT ![m] = lesson]
    \/ LearningFails /\ taught' = [taught EXCEPT ![m] = "missed"]

ClientStep == clientSteps > 0 /\ clientSteps' = clientSteps - 1

Deliver(m, today) ==
    /\ ClientStep
    /\ place[m] = "none"
    /\ place' = [place EXCEPT ![m] = Filed(m)]
    /\ received' = [received EXCEPT ![m] = today]
    /\ UNCHANGED << copy, taught >>

\* mailbox Spam { sieve_script spam { cause = copy } }; a message that has flags
\* keeps them and goes to cur.
MoveIntoSpam(m) ==
    /\ ClientStep
    /\ place[m] = "out"
    /\ \E p \in { "new", "seen" } : place' = [place EXCEPT ![m] = p]
    /\ copy' = [copy EXCEPT ![m] = @ + 1]
    /\ Learns(m, "spam")
    /\ UNCHANGED received

\* imapsieve_from Spam { sieve_script ham { cause = copy } }, whatever folder the
\* message goes to, the Trash included.
MoveOutOfSpam(m) ==
    /\ ClientStep
    /\ place[m] \in InSpam
    /\ place' = [place EXCEPT ![m] = "out"]
    /\ Learns(m, "ham")
    /\ UNCHANGED << copy, received >>

\* The client opens the folder: what is new becomes current.
Notice(m) ==
    /\ ClientStep
    /\ place[m] = "new"
    /\ place' = [place EXCEPT ![m] = "cur"]
    /\ UNCHANGED << copy, received, taught >>

\* A flag is set: the file gets another name.
Read(m) ==
    /\ ClientStep
    /\ place[m] = "cur"
    /\ place' = [place EXCEPT ![m] = "seen"]
    /\ UNCHANGED << copy, received, taught >>

Expunge(m) ==
    /\ ClientStep
    /\ place[m] \in InSpam
    /\ place' = [place EXCEPT ![m] = "gone"]
    /\ UNCHANGED << copy, received, taught >>

Client(m) ==
    \/ MoveIntoSpam(m) \/ MoveOutOfSpam(m) \/ Notice(m) \/ Read(m) \/ Expunge(m)

\* The name of a message's file in Spam.
Path(m) == [msg |-> m, copy |-> copy[m], place |-> place[m]]

=============================================================================
