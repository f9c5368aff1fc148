-------------------------- MODULE SnsWebhookProofs --------------------------
(***************************************************************************)
(* Theorems about SnsWebhook: types, RefusalHasCause, ForgottenIsDone,     *)
(* OnlyWhatSnsSigned and CertificateKept, for any messages, any number of  *)
(* processes and any threads in them.                                      *)
(***************************************************************************)
EXTENDS SnsWebhook, TLAPS

-----------------------------------------------------------------------------
(* The pure parts.                                                         *)

\* The loop over the domains stops at the first one, amazonaws.com, for every
\* URL that is not of the form SNS uses: only those come through.
LEMMA TrustedIsSes ==
  ASSUME NEW a, TrustedUrl(a) PROVE SesUrl(a)
<1>1. PICK i \in 1..Len(EventCertDomains) :
        \A j \in 1..i : ~StopsAt(EventCertDomains[j], a)
  BY DEF TrustedUrl
<1>2. 1 \in 1..i
  BY <1>1
<1>3. ~StopsAt(AmazonAws, a)
  BY <1>1, <1>2, SnsConstants
<1>4. OfAmazonAws(AmazonAws) /\ Len(AmazonAws) = 2
  BY DEF OfAmazonAws, AmazonAws
<1> QED
  BY <1>3, <1>4 DEF StopsAt

\* A message as SNS sends it passes every check.
LEMMA GenuineIsFine ==
  ASSUME NEW c, Genuine(c) PROVE Checkable(c) /\ SignatureFits(c)
<1>1. SignatureFits(c)
  <2>1. c.fields \ {"UnsubscribeURL"} = FieldsToSign(c.type) \cap c.fields
    BY DEF Genuine, FieldsToSign
  <2> QED
    BY <2>1 DEF Genuine, SignedBySns, SignatureFits, BytesToSign
<1>2. c.signature # None
  BY DEF Genuine, SignedBySns
<1>3. TrustedUrl(Address[c.cert])
  <2> DEFINE a == Address[c.cert]
  <2>1. SesUrl(a) /\ EndsWith(a.host, AmazonAws)
    BY DEF Genuine
  <2>2. 1 \in 1..Len(EventCertDomains) /\ EventCertDomains[1] = AmazonAws
    BY SnsConstants
  <2>3. \A j \in 1..1 : ~StopsAt(EventCertDomains[j], a)
    BY <2>1 DEF StopsAt
  <2> QED
    BY <2>1, <2>2, <2>3 DEF TrustedUrl, SesUrl
<1> QED
  BY <1>1, <1>2, <1>3 DEF Checkable, Genuine

\* The records that are to be transcribed are the ones the view looks at.
LEMMA GenuineRecords ==
  ASSUME NEW c, Genuine(c)
  PROVE  /\ PutOf(c) = Wanted(c)
         /\ PutOf(c) = {} => Code(c) = 200
<1>1. PutOf(c) = Wanted(c)
  BY DEF Genuine, PutOf, Wanted
<1>2. ASSUME PutOf(c) = {}, c.type = "Notification"
      PROVE  Code(c) = 200
  <2>1. \A i \in FirstNamed(c) : c.records[i] \in Copy
    BY <1>2 DEF Genuine, PutOf
  <2> QED
    BY <2>1, <1>2 DEF Code, Genuine, Confirmations
<1>3. c.type # "Notification" => Code(c) = 200
  BY DEF Code, Genuine, Recognized, Confirmations
<1> QED
  BY <1>1, <1>2, <1>3

-----------------------------------------------------------------------------
(* Types: a request at work holds a message, and how far it has come says  *)
(* what of it has been checked.                                            *)

Checking == {"look", "download", "return", "verify"}

RequestOK(r) ==
    /\ r \in Request
    /\ r.pc # "idle" => r.msg \in Message
    /\ r.pc \in Checking => Checkable(Content[r.msg]) /\ VerifySignatures
    /\ r.pc = "handle" /\ VerifySignatures =>
          Checkable(Content[r.msg]) /\ SignatureFits(Content[r.msg])
    /\ r.pc = "answer" => r.code \in {200, 400, 500}

TypeInv == TypeOK /\ \A s \in Slot : RequestOK(request[s])

LEMMA CheckableHasUrl ==
  ASSUME NEW m \in Message, Checkable(Content[m]) PROVE Content[m].cert \in CertUrl
BY SnsConstants DEF Checkable

LEMMA CertOfChecking ==
  ASSUME TypeInv, NEW s \in Slot, request[s].pc \in Checking
  PROVE  /\ Msg(s) \in Message /\ ProcessOf[s] \in Process
         /\ Data(s).cert \in CertUrl
         /\ Cert(s) \in {"absent", "none", "cert"}
<1>1. Msg(s) \in Message /\ Checkable(Data(s)) /\ ProcessOf[s] \in Process
  BY SnsConstants DEF TypeInv, RequestOK, Msg, Data, Checking
<1>2. Data(s).cert \in CertUrl
  BY <1>1, CheckableHasUrl DEF Data
<1> QED
  BY <1>1, <1>2 DEF TypeInv, TypeOK, Cert

\* One request changes, into another one of its type.
LEMMA OneRequest ==
  ASSUME TypeInv, NEW s \in Slot, NEW STATE r, RequestOK(r),
         request' = [request EXCEPT ![s] = r]
  PROVE  request' \in [Slot -> Request] /\ \A t \in Slot : RequestOK(request'[t])
BY DEF TypeInv, TypeOK, RequestOK

LEMMA ToOK ==
  ASSUME TypeInv, NEW s \in Slot, NEW pc, To(s, pc),
         RequestOK([request[s] EXCEPT !.pc = pc])
  PROVE  request' \in [Slot -> Request] /\ \A t \in Slot : RequestOK(request'[t])
<1>1. request' = [request EXCEPT ![s] = [request[s] EXCEPT !.pc = pc]]
  BY DEF To
<1> QED
  BY <1>1, OneRequest

LEMMA RespondOK ==
  ASSUME TypeInv, NEW s \in Slot, NEW code \in {200, 400, 500}, Respond(s, code),
         request[s].pc # "idle"
  PROVE  request' \in [Slot -> Request] /\ \A t \in Slot : RequestOK(request'[t])
<1> DEFINE r == [request[s] EXCEPT !.pc = "answer", !.code = code]
<1>1. request[s] \in Request /\ request[s].msg \in Message
  BY DEF TypeInv, RequestOK
<1>2. r \in Request /\ r.pc = "answer" /\ r.code = code /\ r.msg \in Message
  BY <1>1 DEF Request
<1>3. RequestOK(r)
  BY <1>2 DEF RequestOK, Checking
<1>4. request' = [request EXCEPT ![s] = r]
  BY DEF Respond
<1> HIDE DEF r
<1> QED
  BY <1>2, <1>3, <1>4 DEF TypeInv, TypeOK

THEOREM TypeInit == Init => TypeInv
BY SnsConstants
   DEF Init, TypeInv, TypeOK, RequestOK, Request, Idle, NoCertificates, Checking

LEMMA TypeNext == TypeInv /\ [Next]_vars => TypeInv'
<1> SUFFICES ASSUME TypeInv, [Next]_vars PROVE TypeInv'
  OBVIOUS
<1> USE DEF TypeInv
<1>1. ASSUME NEW s \in Slot, NEW m \in Message, Receive(s, m) PROVE TypeInv'
  <2> DEFINE r == [pc |-> IF Refusal(Content[m]) # 0 THEN "answer"
                          ELSE IF VerifySignatures THEN "look" ELSE "handle",
                   msg |-> m, code |-> Refusal(Content[m])]
  <2>1. RequestOK(r)
    BY SnsConstants DEF RequestOK, Request, Checking, Refusal
  <2>2. request' = [request EXCEPT ![s] = r]
    BY <1>1 DEF Receive
  <2> HIDE DEF r
  <2>3. request' \in [Slot -> Request] /\ \A t \in Slot : RequestOK(request'[t])
    BY <2>1, <2>2, OneRequest
  <2> QED
    BY <1>1, <2>3 DEF Receive, TypeOK
<1>2. ASSUME NEW s \in Slot, Look(s) PROVE TypeInv'
  <2>1. \A pc \in {"return", "download"} : RequestOK([request[s] EXCEPT !.pc = pc])
    BY <1>2 DEF Look, RequestOK, Request, Checking
  <2> QED
    BY <1>2, <2>1, ToOK DEF Look, TypeOK
<1>3. ASSUME NEW s \in Slot, Download(s) PROVE TypeInv'
  <2>1. RequestOK([request[s] EXCEPT !.pc = "return"])
    BY <1>3 DEF Download, RequestOK, Request, Checking
  <2>2. ProcessOf[s] \in Process /\ Data(s).cert \in CertUrl
    BY <1>3, CertOfChecking DEF Download, Checking
  <2>3. cache' \in [Process -> [CertUrl -> {"absent", "none", "cert"}]]
    BY <1>3, <2>2 DEF Download, TypeOK, Failed
  <2>4. faults' \in Nat
    BY <1>3 DEF Download, TypeOK, Fault
  <2> QED
    BY <1>3, <2>1, <2>3, <2>4, ToOK DEF Download, TypeOK
<1>4. ASSUME NEW s \in Slot, Return(s) PROVE TypeInv'
  <2>1. RequestOK([request[s] EXCEPT !.pc = "verify"])
    BY <1>4 DEF Return, RequestOK, Request, Checking
  <2> QED
    BY <1>4, <2>1, ToOK, RespondOK DEF Return, TypeOK
<1>5. ASSUME NEW s \in Slot, Verify(s) PROVE TypeInv'
  <2>1. ASSUME Verified(Data(s)) PROVE RequestOK([request[s] EXCEPT !.pc = "handle"])
    BY <1>5, <2>1
       DEF Verify, Verified, RequestOK, Request, Checking, Data, Msg
  <2>2. \/ To(s, "handle") /\ Verified(Data(s))
        \/ Respond(s, 500) \/ Respond(s, 400)
    BY <1>5 DEF Verify
  <2> QED
    BY <1>5, <2>1, <2>2, ToOK, RespondOK DEF Verify, TypeOK
<1>6. ASSUME NEW s \in Slot, HandlePut(s) PROVE TypeInv'
  <2>1. PICK i \in PutOf(Data(s)) :
          \/ /\ started' = started \cup {<<Msg(s), i>>}
             /\ Respond(s, 200) /\ UNCHANGED faults
          \/ /\ Fault
             /\ Respond(s, ServerError) /\ UNCHANGED started
    BY <1>6 DEF HandlePut
  <2>2. Msg(s) \in Message
    BY <1>6 DEF HandlePut, RequestOK, Msg
  <2>3. i \in Nat
    BY <2>1, <2>2, SnsConstants DEF PutOf, FirstNamed, Data
  <2>4. started' \in SUBSET (Message \X Nat) /\ faults' \in Nat
    BY <2>1, <2>2, <2>3 DEF TypeOK, Fault
  <2>5. Respond(s, 200) \/ Respond(s, 500)
    BY <2>1 DEF ServerError
  <2> QED
    BY <1>6, <2>4, <2>5, RespondOK DEF HandlePut, TypeOK
<1>7. ASSUME NEW s \in Slot, Confirm(s) PROVE TypeInv'
  <2>1. Msg(s) \in Message
    BY <1>7 DEF Confirm, RequestOK, Msg
  <2>2. confirmed' \in SUBSET Message /\ faults' \in Nat
    BY <1>7, <2>1 DEF Confirm, TypeOK, Fault
  <2> QED
    BY <1>7, <2>2, RespondOK DEF Confirm, TypeOK
<1>8. ASSUME NEW s \in Slot, HandleOther(s) PROVE TypeInv'
  <2>1. Code(Data(s)) \in {200, 400, 500}
    BY DEF Code
  <2> QED
    BY <1>8, <2>1, RespondOK DEF HandleOther, TypeOK
<1>9. ASSUME NEW s \in Slot, Answer(s) PROVE TypeInv'
  <2>1. RequestOK(Idle)
    BY DEF RequestOK, Request, Idle, Checking
  <2>2. Msg(s) \in Message /\ request[s].code \in {200, 400, 500}
    BY <1>9 DEF Answer, RequestOK, Msg
  <2>3. answers' \in [Message -> SUBSET {200, 400, 500}]
    BY <1>9, <2>2 DEF Answer, TypeOK
  <2> QED
    BY <1>9, <2>1, <2>3, OneRequest DEF Answer, TypeOK
<1>10. ASSUME NEW p \in Process, ProcessDies(p) PROVE TypeInv'
  <2>1. RequestOK(Idle) /\ Idle \in Request
    BY DEF RequestOK, Request, Idle, Checking
  <2> QED
    BY <1>10, <2>1 DEF ProcessDies, TypeOK, NoCertificates
<1>11. CASE UNCHANGED vars
  BY <1>11 DEF vars, TypeOK
<1> QED
  BY <1>1, <1>2, <1>3, <1>4, <1>5, <1>6, <1>7, <1>8, <1>9, <1>10, <1>11
     DEF Next, Step

THEOREM TypeInvariant == Spec => []TypeInv
BY TypeInit, TypeNext, PTL DEF Spec

\* Every variable has its type, for all constants.
THEOREM TypeCorrect == Spec => []TypeOK
<1>1. TypeInv => TypeOK
  BY DEF TypeInv
<1> QED
  BY <1>1, TypeInvariant, PTL

-----------------------------------------------------------------------------
(* OnlyWhatSnsSigned.                                                      *)

LEMMA SignedNext ==
  TypeInv /\ OnlyWhatSnsSigned /\ [Next]_vars => OnlyWhatSnsSigned'
<1> SUFFICES ASSUME TypeInv, OnlyWhatSnsSigned, [Next]_vars, VerifySignatures,
                    NEW t \in started'
             PROVE  SignatureFits(Content[t[1]]) /\ SesUrl(Address[Content[t[1]].cert])
  BY DEF OnlyWhatSnsSigned
<1>1. CASE t \in started
  BY <1>1 DEF OnlyWhatSnsSigned
<1>2. CASE t \notin started
  <2>1. PICK s \in Slot : HandlePut(s)
    BY <1>2 DEF Next, Step, vars, Receive, Look, Download, Return, Verify, Confirm,
                HandleOther, Answer, ProcessDies
  <2>2. t[1] = request[s].msg /\ request[s].pc = "handle"
    BY <1>2, <2>1 DEF HandlePut, Msg
  <2>3. Checkable(Content[t[1]]) /\ SignatureFits(Content[t[1]])
    BY <2>2 DEF TypeInv, RequestOK
  <2> QED
    BY <2>3, TrustedIsSes DEF Checkable
<1> QED
  BY <1>1, <1>2

\* Tasks are queued for what SNS has signed only.
THEOREM OnlyWhatSnsSignedCorrect == Spec => []OnlyWhatSnsSigned
<1>1. Init => OnlyWhatSnsSigned
  BY DEF Init, OnlyWhatSnsSigned
<1> QED
  BY <1>1, SignedNext, TypeInvariant, PTL DEF Spec

-----------------------------------------------------------------------------
(* CertificateKept.  A request that is alone in its process and downloads a *)
(* certificate is the only one that could have cached it.                  *)

KeptInv == \A s \in Slot :
    Alone(ProcessOf[s]) /\ request[s].pc = "download" => Cert(s) = "absent"

LEMMA Moves ==
  ASSUME TypeInv, NEW s \in Slot
  PROVE  /\ \A pc : To(s, pc) => /\ request'[s].pc = pc
                                 /\ request'[s].msg = request[s].msg
         /\ \A code : Respond(s, code) => /\ request'[s].pc = "answer"
                                         /\ request'[s].code = code
                                         /\ request'[s].msg = request[s].msg
<1>1. request[s] \in Request /\ s \in DOMAIN request
  BY DEF TypeInv, TypeOK
<1>2. ASSUME NEW pc, To(s, pc)
      PROVE  request'[s].pc = pc /\ request'[s].msg = request[s].msg
  BY <1>1, <1>2 DEF To, Request
<1>3. ASSUME NEW code, Respond(s, code)
      PROVE  /\ request'[s].pc = "answer" /\ request'[s].code = code
             /\ request'[s].msg = request[s].msg
  BY <1>1, <1>3 DEF Respond, Request
<1> QED
  BY <1>2, <1>3

LEMMA KeptNext == TypeInv /\ KeptInv /\ [Next]_vars => KeptInv'
<1> SUFFICES ASSUME TypeInv, KeptInv, [Next]_vars, NEW s \in Slot,
                    Alone(ProcessOf[s]), request'[s].pc = "download"
             PROVE  Cert(s)' = "absent"
  BY DEF KeptInv, Alone
<1> USE DEF Cert, Msg, Data
<1>1. ASSUME NEW t \in Slot, Step(t) \/ \E m \in Message : Receive(t, m), t = s
      PROVE  Cert(s)' = "absent"
  <2>1. Look(s)
    <3>1. ASSUME NEW pc, To(s, pc) PROVE pc = "download"
      BY <3>1, Moves
    <3>2. ASSUME NEW code, Respond(s, code) PROVE FALSE
      BY <3>2, Moves
    <3>3. ~(\E m \in Message : Receive(s, m)) /\ ~Answer(s)
      BY DEF Receive, Answer, Idle, TypeInv, TypeOK
    <3>4. ~Download(s) /\ ~Return(s) /\ ~Verify(s)
      BY <3>1, <3>2 DEF Download, Return, Verify
    <3>5. ~HandlePut(s) /\ ~Confirm(s) /\ ~HandleOther(s)
      BY <3>2 DEF HandlePut, Confirm, HandleOther
    <3> QED
      BY <1>1, <3>3, <3>4, <3>5 DEF Step
  <2>2. request[s].pc = "look" /\ cache' = cache /\ request'[s].msg = request[s].msg
        /\ ~Cached(Cert(s))
    BY <2>1 DEF Look, To, TypeInv, TypeOK
  <2> QED
    BY <2>2 DEF Cached
<1>2. ASSUME NEW t \in Slot, Step(t) \/ \E m \in Message : Receive(t, m), t # s
      PROVE  Cert(s)' = "absent"
  <2>1. request'[s] = request[s]
    BY <1>2 DEF Step, Look, Download, Return, Verify, HandlePut, Confirm,
                HandleOther, Answer, To, Respond, TypeInv, TypeOK, Receive
  <2>2. ProcessOf[t] # ProcessOf[s]
    BY <1>2 DEF Alone
  <2>3. cache'[ProcessOf[s]] = cache[ProcessOf[s]]
    <3>1. CASE cache' = cache
      BY <3>1
    <3>2. CASE Download(t)
      BY <2>2, <3>2, SnsConstants DEF Download, TypeInv, TypeOK
    <3> QED
      BY <1>2, <3>1, <3>2 DEF Step, Look, Return, Verify, HandlePut, Confirm,
                              HandleOther, Answer, Receive
  <2> QED
    BY <2>1, <2>3 DEF KeptInv
<1>3. ASSUME NEW p \in Process, ProcessDies(p) PROVE Cert(s)' = "absent"
  <2>1. ProcessOf[s] # p /\ request'[s] = request[s]
    BY <1>3 DEF ProcessDies, Idle
  <2>2. cache'[ProcessOf[s]] = cache[ProcessOf[s]]
    BY <1>3, <2>1, SnsConstants DEF ProcessDies, TypeInv, TypeOK
  <2> QED
    BY <2>1, <2>2 DEF KeptInv
<1>4. CASE UNCHANGED vars
  BY <1>4 DEF vars, KeptInv
<1> QED
  BY <1>1, <1>2, <1>3, <1>4 DEF Next

LEMMA KeptStep ==
  ASSUME TypeInv, KeptInv, [Next]_vars, NEW p \in Process, NEW u \in CertUrl,
         Alone(p), cache[p][u] = "cert", crashes' = crashes
  PROVE  cache'[p][u] = "cert"
<1>1. CASE cache' = cache
  BY <1>1
<1>2. ASSUME NEW s \in Slot, Download(s) PROVE cache'[p][u] = "cert"
  <2>1. request[s].pc = "download" /\ Cert(s) \in {"absent", "none", "cert"}
        /\ Data(s).cert \in CertUrl /\ ProcessOf[s] \in Process
    BY <1>2, CertOfChecking DEF Download, Checking
  <2>2. ~(ProcessOf[s] = p /\ Data(s).cert = u)
    BY <2>1 DEF KeptInv, Cert
  <2>3. \E c : cache' = [cache EXCEPT ![ProcessOf[s]][Data(s).cert] = c]
    BY <1>2 DEF Download
  <2> QED
    BY <2>1, <2>2, <2>3 DEF TypeInv, TypeOK
<1>3. ASSUME NEW q \in Process, ProcessDies(q) PROVE FALSE
  BY <1>3 DEF ProcessDies, TypeInv, TypeOK
<1> QED
  BY <1>1, <1>2, <1>3 DEF Next, Step, vars, Receive, Look, Return, Verify, HandlePut,
                          Confirm, HandleOther, Answer

\* With one request per process, a certificate stays until the process dies.
THEOREM CertificateKeptCorrect == Spec => CertificateKept
<1>1. Init => KeptInv
  BY DEF Init, KeptInv, Idle
<1>2. TypeInv /\ KeptInv /\ [Next]_vars =>
        [\A p \in Process, u \in CertUrl :
           Alone(p) /\ cache[p][u] = "cert" /\ crashes' = crashes
             => cache'[p][u] = "cert"]_vars
  BY KeptStep
<1> QED
  BY <1>1, <1>2, KeptNext, TypeInvariant, PTL DEF Spec, CertificateKept

-----------------------------------------------------------------------------
(* RefusalHasCause.  As long as no call has failed, no cache holds None, a *)
(* request that goes on from the cache has its certificate, and a genuine  *)
(* message is answered with 200.                                           *)

Clean ==
    /\ \A p \in Process, u \in CertUrl : cache[p][u] # "none"
    /\ \A s \in Slot : request[s].pc \in {"return", "verify"} => Cert(s) = "cert"
    /\ \A s \in Slot : request[s].pc = "answer" /\ Msg(s) \in FromSns =>
                          request[s].code = 200
    /\ \A m \in FromSns : answers[m] \cap {400, 500} = {}

RefusalInv == faults = 0 => Clean

\* The third part of Clean needs to be looked at for the request that moves.
LEMMA CleanFrame ==
  ASSUME TypeInv, Clean, NEW s \in Slot, cache' = cache,
         \A t \in Slot : t # s => request'[t] = request[t],
         request'[s].pc \in {"return", "verify"} => Cert(s)' = "cert",
         request'[s].pc = "answer" /\ Msg(s)' \in FromSns => request'[s].code = 200,
         \A m \in FromSns : answers'[m] \cap {400, 500} = {}
  PROVE  Clean'
BY DEF Clean, Cert, Msg, Data, FromSns

LEMMA Others ==
  ASSUME TypeInv, NEW s \in Slot, NEW t \in Slot, t # s,
         Step(s) \/ \E m \in Message : Receive(s, m)
  PROVE  request'[t] = request[t]
BY DEF Step, Look, Download, Return, Verify, HandlePut, Confirm, HandleOther, Answer,
       To, Respond, TypeInv, TypeOK, Receive

LEMMA RefusalNext == TypeInv /\ RefusalInv /\ [Next]_vars => RefusalInv'
<1> SUFFICES ASSUME TypeInv, RefusalInv, [Next]_vars, faults' = 0 PROVE Clean'
  BY DEF RefusalInv
<1>0. faults = 0 /\ Clean
  <2>1. faults' = faults \/ Fault
    BY DEF Next, Step, vars, Receive, Look, Download, Return, Verify, HandlePut,
           Confirm, HandleOther, Answer, ProcessDies
  <2>2. ~Fault
    BY DEF Fault, TypeInv, TypeOK
  <2> QED
    BY <2>1, <2>2 DEF RefusalInv
<1>f. ~Fault
  BY <1>0 DEF Fault
<1>1. ASSUME NEW s \in Slot, NEW m \in Message, Receive(s, m) PROVE Clean'
  <2>1. request'[s].pc \notin {"return", "verify"} /\ Msg(s)' = m
    BY <1>1 DEF Receive, TypeInv, TypeOK, Msg
  <2>2. ASSUME m \in FromSns PROVE request'[s].pc # "answer"
    <3>1. Refusal(Content[m]) = 0
      BY <2>2, GenuineIsFine DEF FromSns, Genuine, SignedBySns, Garbled, Refusal
    <3> QED
      BY <1>1, <3>1 DEF Receive, TypeInv, TypeOK
  <2>3. \A t \in Slot : t # s => request'[t] = request[t]
    BY <1>1, Others
  <2> QED
    BY <1>0, <1>1, <2>1, <2>2, <2>3, CleanFrame DEF Receive, Clean
<1>2. ASSUME NEW s \in Slot, Step(s), ~Download(s) PROVE Clean'
  <2>1. \A t \in Slot : t # s => request'[t] = request[t]
    BY <1>2, Others
  <2>2. CASE Look(s)
    <3>1. request'[s].pc = "return" => Cert(s) = "cert"
      <4>1. Cert(s) # "none" /\ Cert(s) \in {"absent", "none", "cert"}
        BY <1>0, <2>2, CertOfChecking DEF Clean, Cert, Look, Checking
      <4> QED
        BY <2>2, <4>1, Moves DEF Look, Cached
    <3>2. request'[s].pc \in {"return", "download"} /\ Msg(s)' = Msg(s)
      BY <2>2, Moves DEF Look, Msg
    <3> QED
      BY <1>0, <2>1, <2>2, <3>1, <3>2, CleanFrame DEF Look, Clean, Cert, Data
  <2>3. CASE Return(s)
    <3>1. Cert(s) = "cert" /\ To(s, "verify")
      BY <1>0, <2>3 DEF Return, Clean
    <3>2. request'[s].pc = "verify" /\ Msg(s)' = Msg(s)
      BY <3>1, Moves DEF Msg
    <3> QED
      BY <1>0, <2>1, <2>3, <3>1, <3>2, CleanFrame DEF Return, Clean, Cert, Data
  <2>4. CASE Verify(s)
    <3>1. Cert(s) = "cert"
      BY <1>0, <2>4 DEF Verify, Clean
    <3>2. ASSUME Msg(s) \in FromSns PROVE To(s, "handle")
      <4>1. Verified(Data(s))
        BY <3>2, GenuineIsFine DEF FromSns, Verified, Data
      <4> QED
        BY <2>4, <3>1, <4>1 DEF Verify
    <3>3. /\ Msg(s)' = Msg(s) /\ request'[s].pc \in {"handle", "answer"}
          /\ Msg(s) \in FromSns => request'[s].pc = "handle"
      BY <2>4, <3>2, Moves DEF Verify, Msg
    <3> QED
      BY <1>0, <2>1, <2>4, <3>3, CleanFrame DEF Verify, Clean
  <2>5. CASE HandlePut(s) \/ Confirm(s)
    <3>1. Respond(s, 200)
      BY <1>f, <2>5 DEF HandlePut, Confirm
    <3>2. request'[s].pc = "answer" /\ request'[s].code = 200
      BY <3>1, Moves
    <3> QED
      BY <1>0, <2>1, <2>5, <3>2, CleanFrame DEF HandlePut, Confirm, Clean
  <2>6. CASE HandleOther(s)
    <3>1. Msg(s) \in FromSns => Code(Data(s)) = 200
      BY <2>6, GenuineRecords DEF HandleOther, FromSns, Data
    <3>2. /\ Msg(s)' = Msg(s) /\ request'[s].pc = "answer"
          /\ request'[s].code = Code(Data(s))
      BY <2>6, Moves DEF HandleOther, Msg
    <3> QED
      BY <1>0, <2>1, <2>6, <3>1, <3>2, CleanFrame DEF HandleOther, Clean
  <2>7. CASE Answer(s)
    <3>1. request'[s].pc = "idle"
      BY <2>7 DEF Answer, Idle, TypeInv, TypeOK
    <3>2. Msg(s) \in FromSns => request[s].code = 200
      BY <1>0, <2>7 DEF Answer, Clean
    <3>3. answers' = [answers EXCEPT ![Msg(s)] = @ \cup {request[s].code}]
          /\ answers \in [Message -> SUBSET {200, 400, 500}]
      BY <2>7 DEF Answer, TypeInv, TypeOK
    <3>4. \A m \in FromSns : answers'[m] \cap {400, 500} = {}
      BY <1>0, <3>2, <3>3 DEF Clean, FromSns
    <3> QED
      BY <1>0, <2>1, <2>7, <3>1, <3>4, CleanFrame DEF Answer
  <2> QED
    BY <1>2, <2>2, <2>3, <2>4, <2>5, <2>6, <2>7 DEF Step
<1>3. ASSUME NEW s \in Slot, Download(s) PROVE Clean'
  <2>1. /\ cache' = [cache EXCEPT ![ProcessOf[s]][Data(s).cert] = "cert"]
        /\ UNCHANGED answers
        /\ request'[s].pc = "return" /\ Msg(s)' = Msg(s)
    BY <1>f, <1>3, Moves DEF Download, Msg
  <2>2. Data(s).cert \in CertUrl /\ ProcessOf[s] \in Process
    BY <1>3, CertOfChecking DEF Download, Checking
  <2>3. cache'[ProcessOf[s]][Data(s).cert] = "cert"
        /\ \A p \in Process, u \in CertUrl :
              cache'[p][u] = "cert" \/ cache'[p][u] = cache[p][u]
    BY <2>1, <2>2 DEF TypeInv, TypeOK
  <2>4. \A t \in Slot : t # s => request'[t] = request[t]
    BY <1>3, Others DEF Step
  <2>5. ASSUME NEW t \in Slot, request'[t].pc \in {"return", "verify"}
        PROVE  Cert(t)' = "cert"
    <3>1. CASE t = s
      BY <2>1, <2>3, <3>1 DEF Cert, Data
    <3>2. CASE t # s
      <4>1. request'[t] = request[t] /\ Cert(t) = "cert"
        BY <1>0, <2>4, <2>5, <3>2 DEF Clean
      <4>2. Data(t).cert \in CertUrl /\ ProcessOf[t] \in Process
        BY <2>5, <4>1, CertOfChecking DEF Checking
      <4> QED
        BY <2>3, <4>1, <4>2 DEF Cert, Data, Msg
    <3> QED
      BY <3>1, <3>2
  <2>6. \A p \in Process, u \in CertUrl : cache'[p][u] # "none"
    BY <1>0, <2>3 DEF Clean
  <2>7. \A t \in Slot : request'[t].pc = "answer" => request'[t] = request[t]
    BY <2>1, <2>4
  <2> QED
    BY <1>0, <2>1, <2>5, <2>6, <2>7 DEF Clean, Msg, FromSns
<1>4. ASSUME NEW p \in Process, ProcessDies(p) PROVE Clean'
  <2>1. \A s \in Slot : \/ request'[s].pc = "idle"
                        \/ ProcessOf[s] # p /\ request'[s] = request[s]
    BY <1>4 DEF ProcessDies, Idle
  <2>2. \A q \in Process : \/ q = p /\ cache'[q] = NoCertificates
                           \/ q # p /\ cache'[q] = cache[q]
    BY <1>4 DEF ProcessDies, TypeInv, TypeOK
  <2>3. \A q \in Process, u \in CertUrl : cache'[q][u] # "none"
    BY <1>0, <2>2 DEF Clean, NoCertificates
  <2>4. \A s \in Slot : request'[s].pc \in {"return", "verify"} => Cert(s)' = "cert"
    BY <1>0, <2>1, <2>2, SnsConstants DEF Clean, Cert, Data, Msg
  <2> QED
    BY <1>0, <1>4, <2>1, <2>3, <2>4 DEF Clean, ProcessDies, Msg, FromSns
<1>5. CASE UNCHANGED vars
  BY <1>0, <1>5 DEF vars, Clean, Cert, Msg, Data, FromSns
<1> QED
  BY <1>1, <1>2, <1>3, <1>4, <1>5 DEF Next

\* No genuine message is refused unless a call has failed.
THEOREM RefusalHasCauseCorrect == Spec => []RefusalHasCause
<1>1. Init => RefusalInv
  BY SnsConstants DEF Init, RefusalInv, Clean, Idle, NoCertificates, FromSns
<1>2. TypeInv /\ RefusalInv => RefusalHasCause
  BY DEF TypeInv, TypeOK, RefusalInv, Clean, RefusalHasCause
<1> QED
  BY <1>1, <1>2, RefusalNext, TypeInvariant, PTL DEF Spec

-----------------------------------------------------------------------------
(* ForgottenIsDone.  What is on its way, or was answered, SNS either has   *)
(* still to deliver or has had an answer for that ends it; and such an     *)
(* answer 200 comes after the work.                                        *)

Done(m) == /\ \A i \in Wanted(Content[m]) : <<m, i>> \in started
           /\ Content[m].type = "SubscriptionConfirmation" =>
                 m \in confirmed \/ faults > 0

Kept(m) == m \in inbox \/ answers[m] \cap {200, 400} # {}

DoneInv ==
    /\ \A s \in Slot : request[s].pc # "idle" => Kept(Msg(s))
    /\ \A m \in FromSns : answers[m] # {} => Kept(m)
    /\ \A s \in Slot : /\ request[s].pc = "answer" /\ request[s].code = 200
                        /\ Msg(s) \in FromSns
                        => Done(Msg(s))
    /\ \A m \in FromSns : 200 \in answers[m] => Done(m)

LEMMA FirstIsOne ==
  ASSUME NEW c, NEW i \in FirstNamed(c), NEW j \in FirstNamed(c),
         Len(c.records) \in Nat
  PROVE  i = j
BY DEF FirstNamed

\* What is done stays done.
LEMMA DoneStays ==
  ASSUME TypeInv, [Next]_vars, NEW m, Done(m) PROVE Done(m)'
<1>1. started \subseteq started' /\ confirmed \subseteq confirmed'
  BY DEF Next, Step, vars, Receive, Look, Download, Return, Verify, HandlePut,
         Confirm, HandleOther, Answer, ProcessDies
<1>2. faults' = faults \/ faults' = faults + 1
  BY DEF Next, Step, vars, Receive, Look, Download, Return, Verify, HandlePut,
         Confirm, HandleOther, Answer, ProcessDies, Fault
<1> QED
  BY <1>1, <1>2 DEF Done, TypeInv, TypeOK

\* Steps other than Answer leave inbox and answers alone; a request moves.
LEMMA DoneFrame ==
  ASSUME TypeInv, [Next]_vars, DoneInv, NEW s \in Slot,
         inbox' = inbox, answers' = answers,
         \A t \in Slot : t # s => request'[t] = request[t],
         request'[s].pc # "idle" => Kept(Msg(s))',
         request'[s].pc = "answer" /\ request'[s].code = 200 /\ Msg(s)' \in FromSns
            => Done(Msg(s))'
  PROVE  DoneInv'
<1>1. ASSUME NEW t \in Slot, request'[t].pc # "idle" PROVE Kept(Msg(t))'
  BY <1>1 DEF DoneInv, Kept, Msg
<1>2. \A m \in FromSns : answers'[m] # {} => Kept(m)'
  BY DEF DoneInv, Kept
<1>3. ASSUME NEW t \in Slot, request'[t].pc = "answer", request'[t].code = 200,
             Msg(t)' \in FromSns
      PROVE  Done(Msg(t))'
  <2>1. CASE t = s
    BY <1>3, <2>1
  <2>2. CASE t # s
    <3>1. Msg(t)' = Msg(t) /\ Done(Msg(t))
      BY <1>3, <2>2 DEF DoneInv, Msg
    <3> QED
      BY <3>1, DoneStays DEF Done
  <2> QED
    BY <2>1, <2>2
<1>4. \A m \in FromSns : 200 \in answers'[m] => Done(m)'
  BY DoneStays DEF DoneInv
<1> QED
  BY <1>1, <1>2, <1>3, <1>4 DEF DoneInv, FromSns

LEMMA DoneNext == TypeInv /\ DoneInv /\ [Next]_vars => DoneInv'
<1> SUFFICES ASSUME TypeInv, DoneInv, [Next]_vars PROVE DoneInv'
  OBVIOUS
<1>1. ASSUME NEW s \in Slot, NEW m \in Message, Receive(s, m) PROVE DoneInv'
  <2>1. \A t \in Slot : t # s => request'[t] = request[t]
    BY <1>1, Others
  <2>2. Msg(s)' = m /\ request'[s].code # 200
    BY <1>1 DEF Receive, Refusal, TypeInv, TypeOK, Msg
  <2>3. Kept(Msg(s))'
    BY <1>1, <2>2 DEF Receive, Kept
  <2> QED
    BY <1>1, <2>1, <2>2, <2>3, DoneFrame DEF Receive
<1>2. ASSUME NEW s \in Slot, Step(s), ~Answer(s) PROVE DoneInv'
  <2>1. /\ inbox' = inbox /\ answers' = answers
        /\ request[s].pc # "idle" /\ Msg(s)' = Msg(s)
    BY <1>2, Moves DEF Step, Look, Download, Return, Verify, HandlePut, Confirm,
                       HandleOther, Msg
  <2>2. \A t \in Slot : t # s => request'[t] = request[t]
    BY <1>2, Others
  <2>3. Kept(Msg(s))'
    BY <2>1 DEF DoneInv, Kept
  <2>4. ASSUME request'[s].pc = "answer", request'[s].code = 200, Msg(s) \in FromSns
        PROVE  Done(Msg(s))'
    <3>1. Content[Msg(s)].type = "Notification" \/ Content[Msg(s)].type \in Confirmations
      BY <2>4 DEF FromSns, Genuine, Recognized
    <3>2. PutOf(Data(s)) = Wanted(Data(s))
      BY <2>4, GenuineRecords DEF FromSns, Data
    <3>3. CASE HandlePut(s)
      <4>1. PICK i \in PutOf(Data(s)) :
              \/ started' = started \cup {<<Msg(s), i>>}
              \/ Respond(s, ServerError)
        BY <3>3 DEF HandlePut
      <4>2. ~Respond(s, ServerError)
        BY <2>4, Moves DEF ServerError
      <4>3. \A j \in Wanted(Data(s)) : j = i
        BY <2>4, <3>2, <4>1, FirstIsOne, SnsConstants DEF PutOf, Data, FromSns
      <4>4. Content[Msg(s)].type = "Notification"
        BY <4>1 DEF PutOf, Data
      <4> QED
        BY <2>1, <4>1, <4>2, <4>3, <4>4 DEF Done, Data
    <3>4. CASE Confirm(s)
      <4>1. \/ Msg(s) \in confirmed'
            \/ faults' = faults + 1
        BY <3>4 DEF Confirm, Fault
      <4>2. Wanted(Content[Msg(s)]) = {}
        BY <3>4 DEF Confirm, Wanted, Data
      <4> QED
        BY <2>1, <4>1, <4>2 DEF Done, TypeInv, TypeOK
    <3>5. CASE HandleOther(s)
      BY <2>1, <3>2, <3>5 DEF HandleOther, Done, Data
    <3>6. ~(Look(s) \/ Download(s) \/ Return(s) \/ Verify(s))
      BY <2>4, Moves DEF Look, Download, Return, Verify
    <3> QED
      BY <1>2, <3>3, <3>4, <3>5, <3>6 DEF Step
  <2> QED
    BY <2>1, <2>2, <2>3, <2>4, DoneFrame
<1>3. ASSUME NEW s \in Slot, Answer(s) PROVE DoneInv'
  <2> DEFINE m == Msg(s)
             code == request[s].code
  <2>1. /\ answers' = [answers EXCEPT ![m] = @ \cup {code}]
        /\ inbox' = inbox \/ (inbox' = inbox \ {m} /\ code \in {200, 400})
        /\ request[s].pc = "answer" /\ m \in Message
    BY <1>3 DEF Answer, TypeInv, RequestOK, Msg
  <2>2. request'[s].pc = "idle"
    BY <1>3 DEF Answer, Idle, TypeInv, TypeOK
  <2>3. \A t \in Slot : t # s => request'[t] = request[t]
    BY <1>3, Others DEF Step
  <2>4. ASSUME NEW n \in Message, Kept(n) PROVE Kept(n)'
    <3>1. answers[n] \subseteq answers'[n] /\ code \in answers'[m]
      BY <2>1 DEF TypeInv, TypeOK
    <3>2. n \in inbox => n \in inbox' \/ (n = m /\ code \in {200, 400})
      BY <2>1
    <3> QED
      BY <2>4, <3>1, <3>2 DEF Kept
  <2>5. Kept(m)
    BY <2>1 DEF DoneInv
  <2>6. ASSUME NEW t \in Slot, request'[t].pc # "idle" PROVE Kept(Msg(t))'
    <3>1. t # s /\ request'[t] = request[t]
      BY <2>2, <2>3, <2>6
    <3>2. Msg(t)' = Msg(t) /\ Msg(t) \in Message /\ Kept(Msg(t))
      BY <2>6, <3>1 DEF DoneInv, Msg, TypeInv, RequestOK
    <3> QED
      BY <2>4, <3>2 DEF Kept
  <2>7. ASSUME NEW n \in FromSns, answers'[n] # {} PROVE Kept(n)'
    <3>1. n \in Message
      BY DEF FromSns
    <3>2. n = m \/ answers[n] # {}
      BY <2>1, <2>7, <3>1 DEF TypeInv, TypeOK
    <3> QED
      BY <2>4, <2>5, <3>1, <3>2 DEF DoneInv
  <2>8. ASSUME NEW t \in Slot, request'[t].pc = "answer", request'[t].code = 200,
               Msg(t)' \in FromSns
        PROVE  Done(Msg(t))'
    <3>1. Msg(t)' = Msg(t) /\ Done(Msg(t))
      BY <2>2, <2>3, <2>8 DEF DoneInv, Msg
    <3> QED
      BY <3>1, DoneStays DEF Done
  <2>9. ASSUME NEW n \in FromSns, 200 \in answers'[n] PROVE Done(n)'
    <3>1. n \in Message
      BY DEF FromSns
    <3>2. 200 \in answers[n] \/ (n = m /\ code = 200)
      BY <2>1, <2>9, <3>1 DEF TypeInv, TypeOK
    <3>3. Done(n)
      BY <2>1, <3>2 DEF DoneInv
    <3> QED
      BY <3>3, DoneStays
  <2> QED
    BY <2>6, <2>7, <2>8, <2>9 DEF DoneInv, FromSns
<1>4. ASSUME NEW p \in Process, ProcessDies(p) PROVE DoneInv'
  <2>1. \A s \in Slot : request'[s].pc = "idle" \/ request'[s] = request[s]
    BY <1>4 DEF ProcessDies, Idle
  <2> QED
    BY <1>4, <2>1 DEF ProcessDies, DoneInv, Kept, Done, Msg, FromSns
<1>5. CASE UNCHANGED vars
  BY <1>5 DEF vars, DoneInv, Kept, Done, Msg, FromSns
<1> QED
  BY <1>1, <1>2, <1>3, <1>4, <1>5 DEF Next

\* Whatever SNS has forgotten has been worked off, or a call has failed.
THEOREM ForgottenIsDoneCorrect == Spec => []ForgottenIsDone
<1>1. Init => RefusalInv /\ DoneInv
  BY SnsConstants DEF Init, RefusalInv, Clean, Idle, NoCertificates, FromSns, DoneInv
<1>2. TypeInv /\ RefusalInv /\ DoneInv => ForgottenIsDone
  BY DEF TypeInv, TypeOK, RefusalInv, Clean, DoneInv, Kept, Done, ForgottenIsDone, FromSns
<1> QED
  BY <1>1, <1>2, RefusalNext, DoneNext, TypeInvariant, PTL DEF Spec
=============================================================================
