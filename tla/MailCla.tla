------------------------------- MODULE MailCla -------------------------------
(***************************************************************************)
(* The mail convergence layer: mailclo sends bundles over SMTP, one to a   *)
(* message or several in a digest; mailcli polls the mailbox over POP3,    *)
(* injects what it finds and deletes the message.                          *)
(***************************************************************************)
EXTENDS StoreBp, MailCodec

CONSTANTS
    MaxMail,  \* bound: messages ever accepted by the mail server
    Body,     \* Body[b]: the octets of a bundle
    MailModes \* configurations: digests or not, and the encoding

ASSUME MailAssumption == MailModes \subseteq BOOLEAN \X {"b64", "attach", "raw"}

VARIABLES
    digest,   \* configured: bundles are collected into digests (-d)
    enc,      \* configured: the encoding, the same at both ends (-e)
    recovered, \* what mailParseMessage finds in the message that mailBuildMessage
              \* makes of a batch; it depends on the configuration alone
    mailbox,  \* messages at the server: their number, and the batch they carry
    mails,    \* messages accepted so far
    listing,  \* numbers the poll has listed and not retrieved yet
    cur,      \* number of the message retrieved
    found,    \* bodies found in it that are still to be injected
    injected, \* injectBundle has injected one
    marked    \* messages DELE was answered for, gone when the session is closed

mailVars == <<digest, enc, recovered, mailbox, mails, listing, cur, found, injected, marked>>
smtpVars == <<mailbox, mails>>
pollVars == <<listing, cur, found, injected, marked>>
mailConf == <<digest, enc, recovered>>

\* The batches there can be, and the message made of one.
Batches == {s \in SeqOf(Bundles, Cardinality(Bundles)) : IsInjective(s)}
MessageOf(s) == BuildMessage(enc, [i \in 1 .. Len(s) |-> Body[s[i]]])

\* In the configurations, the parser finds the bundles of a batch again in the message
\* made of it (without encoding it may not: a bundle may contain the separator).
MailFaithful ==
    \A mode \in MailModes, s \in Batches :
        LET bodies == [i \in 1 .. Len(s) |-> Body[s[i]]]
            parsed == ParseMessage(mode[2], BuildMessage(mode[2], bodies))
        IN parsed \in Seq(Seq(Int)) /\ Range(bodies) \subseteq Range(parsed)

MailInit ==
    /\ \E m \in MailModes : digest = m[1] /\ enc = m[2]
    /\ recovered = [s \in Batches |-> ParseMessage(enc, MessageOf(s))]
    /\ mailbox = {} /\ mails = 0
    /\ listing = {} /\ cur = 0 /\ found = <<>> /\ injected = FALSE /\ marked = {}

-----------------------------------------------------------------------------
(* mailclo. *)

MailStart == CloStart(digest) /\ UNCHANGED mailVars
MailDequeue == Dequeue /\ UNCHANGED mailVars
\* extractBundle fails, or there is no memory for the entry.
MailGiveBack == GiveBack /\ UNCHANGED mailVars
MailLeaveLoop == LeaveLoop /\ UNCHANGED mailVars
MailTellEnd == TellEnd /\ UNCHANGED mailVars
MailJoined == Joined /\ UNCHANGED mailVars
MailBuffer == digest /\ Buffer /\ UNCHANGED mailVars
MailTakeBatch == TakeBatch /\ UNCHANGED mailVars
MailFlushEnds == digest /\ FlushEnds /\ UNCHANGED mailVars

\* Without digests the main thread sends the bundle itself.
MailSendNow ==
    /\ mpc = "have" /\ ~digest
    /\ batch' = <<hand>>
    /\ hand' = NoBundle
    /\ mpc' = "sending"
    /\ fpc' = "send"
    /\ UNCHANGED <<bpVars, running, pend, ok, cliVars, mailVars>>

\* flushPending without memory: the batch is freed, and BP told nothing.
MailNoMemory ==
    /\ fpc = "send" /\ digest
    /\ stranded' = stranded \cup Range(batch)
    /\ batch' = <<>>
    /\ fpc' = "wait"
    /\ UNCHANGED <<bp, acquired, mpc, hand, running, pend, ok, cliVars,
                   mailVars>>

\* mailSmtpSend: the server may take a message whose acceptance is not heard of.
MailSmtp ==
    /\ fpc = "send"
    /\ \E taken \in BOOLEAN, heard \in BOOLEAN :
          /\ heard => taken
          /\ ok' = heard
          /\ IF taken
                THEN /\ mails < MaxMail
                     /\ mails' = mails + 1
                     /\ mailbox' = mailbox \cup
                           {[nbr |-> mails + 1, of |-> batch]}
                ELSE UNCHANGED smtpVars
    /\ fpc' = "settle"
    /\ UNCHANGED <<bp, acquired, stranded, mpc, hand, running, pend, batch,
                   cliVars, mailConf, pollVars>>

MailSettle ==
    \/ digest /\ SettleBatch /\ UNCHANGED mailVars
    \/ /\ ~digest /\ fpc = "settle"
       /\ IF ok THEN XmitSuccess(Range(batch)) ELSE XmitFailure(Range(batch))
       /\ batch' = <<>> /\ ok' = FALSE
       /\ fpc' = "exited"
       /\ mpc' = "loop"
       /\ UNCHANGED <<acquired, stranded, hand, running, pend, cliVars,
                      mailVars>>

MailClo ==
    \/ MailStart \/ MailDequeue \/ MailGiveBack \/ MailLeaveLoop \/ MailTellEnd
    \/ MailJoined \/ MailBuffer \/ MailTakeBatch
    \/ MailFlushEnds \/ MailSendNow \/ MailNoMemory \/ MailSmtp \/ MailSettle

-----------------------------------------------------------------------------
(* mailcli. *)

MailCliStart ==
    /\ rpc = "ended"
    /\ rpc' = "poll"
    /\ UNCHANGED <<faults, bpVars, cloVars, mailVars>>

\* Mutant of MailList: the last message of the list is never looked at.
MailListShort ==
    /\ rpc = "poll"
    /\ listing' = {m.nbr : m \in {n \in mailbox : \E k \in mailbox : n.nbr < k.nbr}}
    /\ rpc' = "next"
    /\ UNCHANGED <<faults, bpVars, cloVars, mailConf, smtpVars, cur, found, injected,
                   marked>>

\* The poll session opens and lists the mailbox (or the poll fails).
MailList ==
    /\ rpc = "poll"
    /\ listing' = {m.nbr : m \in mailbox}
    /\ rpc' = "next"
    /\ UNCHANGED <<faults, bpVars, cloVars, mailConf, smtpVars, cur, found, injected,
                   marked>>

\* RETR of the next message.
MailRetr ==
    /\ rpc = "next" /\ listing # {}
    /\ \E m \in mailbox :
          /\ m.nbr = Min(listing)
          /\ cur' = m.nbr
          /\ listing' = listing \ {m.nbr}
          /\ found' = recovered[m.of]
    /\ injected' = FALSE
    /\ rpc' = "inject"
    /\ UNCHANGED <<faults, bpVars, cloVars, mailConf, smtpVars, marked>>

\* RETR fails and the message is skipped; a new session forgets the deletions.
MailSkip ==
    /\ rpc = "next" /\ listing # {}
    /\ listing' = listing \ {Min(listing)}
    /\ marked' \in {marked, {}}
    /\ Fault
    /\ UNCHANGED <<bpVars, cloVars, mailConf, smtpVars, cur, found, injected, rpc>>

\* injectBundle; what is not a bundle BP acquires nothing of.
MailInject ==
    /\ rpc = "inject" /\ found # <<>>
    /\ Acquire({b \in Bundles : Body[b] = Head(found)})
    /\ injected' = TRUE
    /\ found' = Tail(found)
    /\ UNCHANGED <<bp, stranded, cloVars, cliVars, mailConf, smtpVars, listing,
                   cur, marked>>

\* curl_easy_cleanup says QUIT: the messages marked are deleted.
Quit == mailbox' = {m \in mailbox : m.nbr \notin marked}

\* BP cannot acquire: the message stays, and the poll ends.
MailInjectFails ==
    /\ rpc = "inject" /\ found # <<>>
    /\ Quit
    /\ marked' = {} /\ listing' = {} /\ found' = <<>> /\ cur' = 0
    /\ injected' = FALSE
    /\ rpc' = "poll" /\ Fault
    /\ UNCHANGED <<bpVars, cloVars, mailConf, mails>>

\* onMessage: deleted once a bundle of it has been injected; the answer to DELE
\* is not looked at.
MailDele ==
    /\ rpc = "inject" /\ found = <<>>
    /\ marked' \in {marked, IF injected THEN marked \cup {cur} ELSE marked}
    /\ cur' = 0 /\ injected' = FALSE
    /\ rpc' = "next"
    /\ UNCHANGED <<faults, bpVars, cloVars, mailConf, smtpVars, listing, found>>

MailPollDone ==
    /\ rpc = "next" /\ listing = {}
    /\ Quit
    /\ marked' = {}
    /\ CliEnds \/ (rpc' = "poll" /\ UNCHANGED faults)
    /\ UNCHANGED <<bpVars, cloVars, mailConf, mails, listing, cur, found, injected>>

MailCliStep == MailCliStart \/ MailList \/ MailRetr \/ MailInject \/ MailDele \/ MailPollDone
MailCli == MailCliStep \/ MailSkip \/ MailInjectFails

MailNext == MailClo \/ MailCli

\* A bundle is at the server.
InMail(b) == \E m \in mailbox : b \in Range(m.of)
=============================================================================
