---------------------------- MODULE MCSnsWebhook ----------------------------
(***************************************************************************)
(* TLC instances of SnsWebhook: two processes, one of them with two        *)
(* threads, and the messages of a bucket's topic.                          *)
(***************************************************************************)
EXTENDS SnsWebhook, TLC

CONSTANTS s1, s2, s3, p1, p2

\* EVENT_CERT_DOMAINS, which settings.py leaves at its default.
DefaultDomains == <<AmazonAws, <<"amazon", "com">>>>

\* p1 is a worker of gunicorn, p2 a server with threads (runserver).
SlotsOf == (s1 :> p1) @@ (s2 :> p2) @@ (s3 :> p2)

Sns == [https |-> TRUE, host |-> <<"sns", "us-east-1", "amazonaws", "com">>,
        pem |-> TRUE]

Addresses == ("sns" :> Sns)
          @@ ("china" :> [Sns EXCEPT !.host = Append(@, "cn")])
          @@ ("other" :> [Sns EXCEPT !.host = <<"files", "example", "com">>])

Always == {"Message", "MessageId", "Timestamp", "TopicArn", "Type"}

Signed(fields) == [over |-> fields, hash |-> "SHA1"]

\* A notification of one upload; S3 gives it a Subject.
Upload ==
    [json |-> TRUE, object |-> TRUE, type |-> "Notification", cert |-> "sns", broken |-> FALSE,
     fields |-> Always \cup {"Subject", "UnsubscribeURL"},
     signature |-> Signed(Always \cup {"Subject"}),
     records |-> <<"ObjectCreated:Put">>]

\* No Subject, a record without a name in front, and one more behind.
Several ==
    [Upload EXCEPT !.fields = Always, !.signature = Signed(Always),
                   !.records = <<None, "ObjectCreated:Post", "ObjectCreated:Copy">>]

Subscription ==
    [Upload EXCEPT !.type = "SubscriptionConfirmation", !.records = << >>,
                   !.fields = Always \cup {"SubscribeURL", "Token"},
                   !.signature = Signed(Always \cup {"SubscribeURL", "Token"})]

\* "s3test" is the event S3 sends when the bucket is configured.
Contents ==
       ("upload"   :> Upload)
    @@ ("several"  :> Several)
    @@ ("s3test"   :> [Upload EXCEPT !.records = << >>])
    @@ ("copied"   :> [Upload EXCEPT !.records = <<"ObjectCreated:Copy", "ObjectCreated:Put">>])
    @@ ("removed"  :> [Upload EXCEPT !.records = <<"ObjectRemoved:Delete">>])
    @@ ("broken"   :> [Upload EXCEPT !.broken = TRUE, !.records = << >>])
    @@ ("version2" :> [Upload EXCEPT !.signature.hash = "SHA256"])
    @@ ("unsigned" :> [Upload EXCEPT !.signature = None])
    @@ ("garbled"  :> [Upload EXCEPT !.signature.hash = "garbled"])
    @@ ("china"    :> [Upload EXCEPT !.cert = "china"])
    @@ ("other"    :> [Upload EXCEPT !.cert = "other"])
    @@ ("unknown"  :> [Upload EXCEPT !.type = "Other"])
    @@ ("notjson"  :> [Upload EXCEPT !.json = FALSE])
    @@ ("list"     :> [Upload EXCEPT !.object = FALSE])
    @@ ("subscribe"   :> Subscription)
    @@ ("unsubscribe" :> [Subscription EXCEPT !.type = "UnsubscribeConfirmation"])

Messages == DOMAIN Contents

\* What SNS has to deliver at first: each message alone, which may be delivered
\* to several slots, and again and again.
Batches == {{m} : m \in Messages}

BatchInit == Init /\ inbox \in Batches
BatchSpec == BatchInit /\ [][Next]_vars /\ Fairness
=============================================================================
