----------------------------- MODULE SnsWebhook -----------------------------
(***************************************************************************)
(* The door of worker-backend to SNS: S3SNSEventWebhookView.post takes a   *)
(* notification, EventMessageVerifier checks its signature with the        *)
(* certificate it names, and the first S3 event in it decides the answer.  *)
(* The certificates are cached in a global of the process, which the       *)
(* requests of a threaded server share.                                    *)
(*                                                                         *)
(* What handle_put does with the row of the archive is in                  *)
(* TranscriptPipeline; here it starts a task or fails as a whole.          *)
(***************************************************************************)
EXTENDS Naturals, Sequences

CONSTANTS
    Message, Content, \* the notifications SNS may have to deliver, see below
    CertUrl, Address, \* the URLs of certificates, see below
    Slot,             \* the requests the server can be at work on
    Process,          \* its processes
    ProcessOf,        \* the process of each slot
    None,             \* no value
    EventCertDomains, \* EVENT_CERT_DOMAINS, names as sequences of their parts
    VerifySignatures, \* settings.AWS_SNS_VERIFY_EVENT_SIGNATURES
    GivesUp,          \* SNS may take a 4xx answer as final
    MaxFaults,        \* bound on failed calls to SNS, PostgreSQL and Redis
    MaxCrashes        \* bound on processes that die

\* The default list of trusted domains begins with amazonaws.com.
AmazonAws == <<"amazonaws", "com">>

ASSUME SnsConstants ==
    /\ ProcessOf \in [Slot -> Process]
    /\ None \notin Message /\ None \notin CertUrl
    /\ \A m \in Message : /\ Content[m].cert \in CertUrl \cup {None}
                          /\ Len(Content[m].records) \in Nat
    /\ EventCertDomains \in Seq(Seq(STRING)) /\ EventCertDomains # << >>
    /\ EventCertDomains[1] = AmazonAws
    /\ VerifySignatures \in BOOLEAN /\ GivesUp \in BOOLEAN
    /\ MaxFaults \in Nat /\ MaxCrashes \in Nat

(***************************************************************************)
(* The Content of a message is a record: json, whether the body is JSON;   *)
(* object, whether that JSON is an object; type; fields, those that are    *)
(* not empty; signature, None or the fields it was made over and the hash  *)
(* it was made with (a signature by another key is one over nothing, and   *)
(* the hash of one that is no base64 is "garbled"); cert, None or the URL  *)
(* of the certificate; broken, whether Message is not JSON (JSON that is   *)
(* no object is left out); records, the eventNames of the S3 records in    *)
(* it.  The Address of a URL is a record: https; host, as a sequence of    *)
(* parts; and pem, whether the path is one of SNS.                         *)
(***************************************************************************)

VARIABLES
    inbox,     \* the messages SNS has still to deliver
    cache,     \* _CERT_CACHE of each process, by URL
    request,   \* the requests
    started,   \* the messages and records a task was queued for
    confirmed, \* the SubscriptionConfirmations whose URL was visited
    answers,   \* the answers each message has had
    faults, crashes

vars == <<inbox, cache, request, started, confirmed, answers, faults, crashes>>

Put  == {"ObjectCreated:Put", "ObjectCreated:Post"}
Copy == {"ObjectCreated:Copy", "ObjectCreated:CompleteMultipartUpload"}

Confirmations == {"SubscriptionConfirmation", "UnsubscribeConfirmation"}

Request == [pc: {"idle", "look", "download", "return", "verify", "handle", "answer"},
            msg: Message \cup {None}, code: {0, 200, 400, 500}]

Idle == [pc |-> "idle", msg |-> None, code |-> 0]

TypeOK ==
    /\ inbox \in SUBSET Message
    /\ cache \in [Process -> [CertUrl -> {"absent", "none", "cert"}]]
    /\ request \in [Slot -> Request]
    /\ started \in SUBSET (Message \X Nat)
    /\ confirmed \in SUBSET Message
    /\ answers \in [Message -> SUBSET {200, 400, 500}]
    /\ faults \in Nat /\ crashes \in Nat

NoCertificates == [u \in CertUrl |-> "absent"]

Init ==
    /\ inbox \in SUBSET Message
    /\ cache = [p \in Process |-> NoCertificates]
    /\ request = [s \in Slot |-> Idle]
    /\ started = {} /\ confirmed = {}
    /\ answers = [m \in Message |-> {}]
    /\ faults = 0 /\ crashes = 0

Fault == faults < MaxFaults /\ faults' = faults + 1

-----------------------------------------------------------------------------
(* _get_cert_url.                                                          *)

EndsWith(host, parts) ==
    /\ Len(parts) <= Len(host)
    /\ \A i \in 1..Len(parts) : host[Len(host) - Len(parts) + i] = parts[i]

\* SES_REGEX_CERT_URL
SesUrl(a) ==
    /\ a.https /\ a.pem /\ a.host[1] = "sns"
    /\ \/ Len(a.host) = 4 /\ EndsWith(a.host, AmazonAws)
       \/ Len(a.host) = 5 /\ EndsWith(a.host, Append(AmazonAws, "cn"))

\* '"amazonaws.com" in trusted_domain'
OfAmazonAws(parts) ==
    \E i \in 1..(Len(parts) - 1) : parts[i] = "amazonaws" /\ parts[i + 1] = "com"

\* The loop stops with None at a short amazonaws.com domain when the URL is
\* not of the form SNS uses: later domains are not looked at.
StopsAt(parts, a) == OfAmazonAws(parts) /\ ~SesUrl(a) /\ Len(parts) < 4

TrustedUrl(a) ==
    /\ a.https
    /\ \E i \in 1..Len(EventCertDomains) :
          /\ EndsWith(a.host, EventCertDomains[i])
          /\ \A j \in 1..i : ~StopsAt(EventCertDomains[j], a)

-----------------------------------------------------------------------------
(* _get_bytes_to_sign.                                                     *)

\* Joined in the order of their names, as SNS does.
FieldsToSign(type) ==
    {"Message", "MessageId", "Timestamp", "TopicArn", "Type"} \cup
        IF type = "Notification" THEN {"Subject"} ELSE {"SubscribeURL", "Token"}

Recognized(type) == type = "Notification" \/ type \in Confirmations

BytesToSignAbsentToo(c) == FieldsToSign(c.type)
BytesToSign(c) == FieldsToSign(c.type) \cap c.fields

\* pkey.verify of a SHA1 signature, whatever SignatureVersion says.
SignatureFits(c) == c.signature = [over |-> BytesToSign(c), hash |-> "SHA1"]

-----------------------------------------------------------------------------
(* The request.                                                            *)

To(s, pc) == request' = [request EXCEPT ![s].pc = pc]

Respond(s, code) ==
    request' = [request EXCEPT ![s] = [@ EXCEPT !.pc = "answer", !.code = code]]

Msg(s) == request[s].msg
Data(s) == Content[Msg(s)]
Cert(s) == cache[ProcessOf[s]][Data(s).cert]

\* is_verified before it asks for the certificate, and the checks of the URL.
Checkable(c) == /\ c.signature # None /\ Recognized(c.type)
                /\ c.cert # None /\ TrustedUrl(Address[c.cert])

\* b64decode throws.
Garbled(c) == c.signature # None /\ c.signature.hash = "garbled"

\* The answer to a body that is refused as it is, 0 if it is not.  The view
\* catches bad JSON alone: what has no get, or no base64, ends in a 500.
Refusal(c) ==
    IF ~c.json THEN 400
    ELSE IF ~c.object \/ (VerifySignatures /\ Garbled(c)) THEN 500
    ELSE IF VerifySignatures /\ ~Checkable(c) THEN 400
    ELSE 0

\* SNS delivers a message until it is answered; a delivery that takes too long
\* is repeated, so a message may be in two requests.
Receive(s, m) ==
    /\ request[s] = Idle /\ m \in inbox
    /\ request' = [request EXCEPT ![s] =
          [pc |-> IF Refusal(Content[m]) # 0 THEN "answer"
                  ELSE IF VerifySignatures THEN "look" ELSE "handle",
           msg |-> m, code |-> Refusal(Content[m])]]
    /\ UNCHANGED <<inbox, cache, started, confirmed, answers, faults, crashes>>

\* 'cert_url in _CERT_CACHE', whatever it was cached as.
CachedNever(c) == FALSE
Cached(c) == c # "absent"

Look(s) ==
    /\ request[s].pc = "look"
    /\ To(s, IF Cached(Cert(s)) THEN "return" ELSE "download")
    /\ UNCHANGED <<inbox, cache, started, confirmed, answers, faults, crashes>>

\* The download; a network error or a file that is no certificate is cached
\* like one.
FailedAsIs == "exception"
Failed == "none"

Download(s) ==
    /\ request[s].pc = "download"
    /\ \/ /\ cache' = [cache EXCEPT ![ProcessOf[s]][Data(s).cert] = "cert"]
          /\ UNCHANGED faults
       \/ /\ Fault
          /\ cache' = [cache EXCEPT ![ProcessOf[s]][Data(s).cert] = Failed]
    /\ To(s, "return")
    /\ UNCHANGED <<inbox, started, confirmed, answers, crashes>>

\* 'return _CERT_CACHE[cert_url]', and 'if not self.certificate'.
Return(s) ==
    /\ request[s].pc = "return"
    /\ IF Cert(s) = "cert" THEN To(s, "verify") ELSE Respond(s, 400)
    /\ UNCHANGED <<inbox, cache, started, confirmed, answers, faults, crashes>>

\* The property is read again for the key: another thread may have written None
\* over it, and then the exception of None.public_key() is answered with 500.
VerifiedAnyway(c) == TRUE
Verified(c) == SignatureFits(c)

Verify(s) ==
    /\ request[s].pc = "verify"
    /\ CASE Cert(s) # "cert"   -> Respond(s, 500)
         [] Verified(Data(s))   -> To(s, "handle")
         [] OTHER              -> Respond(s, 400)
    /\ UNCHANGED <<inbox, cache, started, confirmed, answers, faults, crashes>>

\* The first record with an eventName: the loop returns the answer to it.
FirstNamed(c) == {i \in 1..Len(c.records) :
                    c.records[i] # None /\ \A j \in 1..(i - 1) : c.records[j] = None}

\* Of the notifications that queue nothing.
Code(c) ==
    IF \/ c.type \in Confirmations
       \/ /\ c.type = "Notification" /\ ~c.broken
          /\ \A i \in FirstNamed(c) : c.records[i] \in Copy
    THEN 200 ELSE 400

\* The record a task is queued for: none, or one.
PutOf(c) == {i \in FirstNamed(c) :
               c.type = "Notification" /\ ~c.broken /\ c.records[i] \in Put}

\* handle_put and handle_post
ServerErrorSwallowed == 200
ServerError == 500

HandlePut(s) ==
    /\ request[s].pc = "handle"
    /\ \E i \in PutOf(Data(s)) :
          \/ /\ started' = started \cup {<<Msg(s), i>>}
             /\ Respond(s, 200) /\ UNCHANGED faults
          \/ /\ Fault
             /\ Respond(s, ServerError) /\ UNCHANGED started
    /\ UNCHANGED <<inbox, cache, confirmed, answers, crashes>>

\* confirm_sns_subscription: a URL that cannot be visited is only logged, when
\* urlopen says so with a URLError; any other exception is answered with 500.
Confirm(s) ==
    /\ request[s].pc = "handle" /\ Data(s).type = "SubscriptionConfirmation"
    /\ \/ /\ confirmed' = confirmed \cup {Msg(s)}
          /\ Respond(s, 200) /\ UNCHANGED faults
       \/ /\ Fault
          /\ Respond(s, 200) \/ Respond(s, 500)
          /\ UNCHANGED confirmed
    /\ UNCHANGED <<inbox, cache, started, answers, crashes>>

\* Everything else.
HandleOther(s) ==
    /\ request[s].pc = "handle" /\ PutOf(Data(s)) = {}
    /\ Data(s).type # "SubscriptionConfirmation"
    /\ Respond(s, Code(Data(s)))
    /\ UNCHANGED <<inbox, cache, started, confirmed, answers, faults, crashes>>

\* The answer reaches SNS.
Answer(s) ==
    LET m == Msg(s) code == request[s].code
    IN  /\ request[s].pc = "answer"
        /\ answers' = [answers EXCEPT ![m] = @ \cup {code}]
        /\ \/ code = 200 /\ inbox' = inbox \ {m}
           \/ code = 400 /\ GivesUp /\ inbox' = inbox \ {m}
           \/ code # 200 /\ UNCHANGED inbox
        /\ request' = [request EXCEPT ![s] = Idle]
        /\ UNCHANGED <<cache, started, confirmed, faults, crashes>>

\* The requests of a process that dies are not answered, and its cache is gone.
ProcessDies(p) ==
    /\ crashes < MaxCrashes /\ crashes' = crashes + 1
    /\ cache' = [cache EXCEPT ![p] = NoCertificates]
    /\ request' = [s \in Slot |-> IF ProcessOf[s] = p THEN Idle ELSE request[s]]
    /\ UNCHANGED <<inbox, started, confirmed, answers, faults>>

-----------------------------------------------------------------------------
(* What SNS sends.                                                         *)

\* SNS signs every field but those about the signature and UnsubscribeURL.
SignedBySns(c) ==
    /\ c.signature # None
    /\ c.signature = [over |-> c.fields \ {"UnsubscribeURL"}, hash |-> "SHA1"]

\* A message as SNS sends it (SignatureVersion 1), in the regions of the
\* partition aws, of an upload or of the subscription.
Genuine(c) ==
    /\ c.json /\ c.object /\ ~c.broken /\ SignedBySns(c) /\ Recognized(c.type)
    /\ c.fields \ {"UnsubscribeURL"} \subseteq FieldsToSign(c.type)
    /\ c.cert # None /\ SesUrl(Address[c.cert])
    /\ EndsWith(Address[c.cert].host, AmazonAws)
    /\ \A i \in FirstNamed(c) : c.records[i] \in Put \cup Copy

\* The records of an upload that ask for a transcript.  Of several records with
\* an eventName only the first is looked at (views.py:52).
Wanted(c) == {i \in FirstNamed(c) : c.type = "Notification" /\ c.records[i] \in Put}

FromSns == {m \in Message : Genuine(Content[m])}
Uploads == {m \in FromSns : Wanted(Content[m]) # {}}

Alone(p) == \A s, t \in Slot : ProcessOf[s] = p /\ ProcessOf[t] = p => s = t

-----------------------------------------------------------------------------
Step(s) == \/ Look(s) \/ Download(s) \/ Return(s) \/ Verify(s)
           \/ HandlePut(s) \/ Confirm(s) \/ HandleOther(s) \/ Answer(s)

Next ==
    \/ \E s \in Slot : Step(s) \/ \E m \in Message : Receive(s, m)
    \/ \E p \in Process : ProcessDies(p)

Spec == Init /\ [][Next]_vars

\* The requests go on, and SNS does deliver each upload it has.
Fairness ==
    /\ \A s \in Slot : WF_vars(Step(s))
    /\ \A m \in Uploads : SF_vars(\E s \in Slot : Receive(s, m))

FairSpec == Spec /\ Fairness

-----------------------------------------------------------------------------
(* Safety.                                                                 *)

\* A genuine message is answered with an error only if some call failed: not
\* for the fields it lacks, the records without a name in front of the first
\* one that has one (views.py:49), or what other threads and processes do
\* with the cache.
RefusalHasCause ==
    \A m \in FromSns : answers[m] \cap {400, 500} # {} => faults > 0

\* SNS forgets a message that is answered with 200 (or, refused, with 400).  A
\* genuine one that it has forgotten has queued its task, and its subscription
\* is confirmed, unless a failed call was cached or only logged
\* (sns_verifier.py:138 and 247): what fails in handle_put (views.py:90) or
\* dies comes again.
ForgottenIsDone ==
    \A m \in FromSns :
        m \notin inbox /\ answers[m] # {} =>
            \/ 400 \in answers[m] /\ faults > 0
            \/ /\ \A i \in Wanted(Content[m]) : <<m, i>> \in started
               /\ Content[m].type = "SubscriptionConfirmation" =>
                     m \in confirmed \/ faults > 0

\* A task is queued only for what SNS has signed, checked with a certificate
\* from a URL of SNS (sns_verifier.py:52), also while other requests of the
\* process fill the cache.
OnlyWhatSnsSigned ==
    VerifySignatures =>
        \A t \in started : SignatureFits(Content[t[1]]) /\ SesUrl(Address[Content[t[1]].cert])

\* In a server with one request per process (gunicorn's sync workers), a
\* certificate that was downloaded stays, until the process dies: no later
\* network error matters any more.  In a threaded one a slower download that
\* fails writes None over it (sns_verifier.py:138).
CertificateKept ==
    [][\A p \in Process, u \in CertUrl :
          Alone(p) /\ cache[p][u] = "cert" /\ crashes' = crashes
             => cache'[p][u] = "cert"]_vars

-----------------------------------------------------------------------------
(* Liveness.                                                               *)

\* A genuine notification of an upload gets its task, over restarts, errors of
\* the database and any number of deliveries, unless it is refused with 400;
\* and that, RefusalHasCause says, takes a failed call.
GenuineGetsThrough ==
    \A m \in Uploads :
        m \in inbox ~> \/ \A i \in Wanted(Content[m]) : <<m, i>> \in started
                       \/ 400 \in answers[m]
=============================================================================
