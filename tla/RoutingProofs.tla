---------------------------- MODULE RoutingProofs ----------------------------
(***************************************************************************)
(* Theorems about Routing, for any events, captures, injections, delivery  *)
(* contexts and requests of the types that the code gives them.            *)
(***************************************************************************)
EXTENDS Routing, SequenceTheorems, TLAPS

-----------------------------------------------------------------------------
\* What "first if it is there" picks, and that picking it again changes nothing.
LEMMA OrPicks ==
  ASSUME NEW s \in Strings, NEW t \in Strings
  PROVE  /\ Or(s, t) \in Strings
         /\ Or(Or(s, t), t) = Or(s, t)
         /\ s # Empty \/ t # Empty => Or(s, t) # Empty
BY DEF Or

\* A string without a colon.
LEMMA Singleton ==
  ASSUME NEW x \in Parts
  PROVE  <<x>> \in Strings /\ <<x>> # Empty
BY DEF Strings, Empty

\* A variable of the environment is that of the last writer who set it.
LEMMA LastWriterWins ==
  ASSUME NEW f, NEW g, NEW v \in Variables
  PROVE  Getenv(Over(f, g))[v] = IF v \in DOMAIN f THEN f[v] ELSE Getenv(g)[v]
BY DEF Getenv, Over

\* A colon-separated session of three parts or more names a target.
LEMMA SessionTarget ==
  ASSUME NEW s \in Strings, ~ (Len(s) < 3)
  PROVE  /\ SubSeq(s, 3, Len(s)) \in Strings /\ SubSeq(s, 3, Len(s)) # Empty
         /\ <<s[1]>> \in Strings /\ <<s[1]>> # Empty
         /\ <<s[2]>> \in Strings /\ <<s[2]>> # Empty
<1>1. Len(s) \in Nat /\ \A i \in 1..Len(s) : s[i] \in Parts
  BY DEF Strings
<1>2. SubSeq(s, 3, Len(s)) \in Seq(Parts) /\ Len(SubSeq(s, 3, Len(s))) = Len(s) - 2
  BY <1>1, SubSeqProperties
<1>3. SubSeq(s, 3, Len(s)) # Empty
  <2>1. Len(s) - 2 # 0
    BY <1>1
  <2>2. Len(Empty) = 0
    BY EmptySeq DEF Empty
  <2> QED BY <1>2, <2>1, <2>2
<1>4. s[1] \in Parts /\ s[2] \in Parts
  BY <1>1
<1> QED BY <1>2, <1>3, <1>4 DEF Strings, Empty

-----------------------------------------------------------------------------
(***************************************************************************)
(* NormalizeSendMessageRequest changes nothing that it normalized.  What   *)
(* it fills stays filled: the session only completes routing fields that   *)
(* are empty, messages only take what they lack, and an attachment is only *)
(* added to a message without one.                                         *)
(***************************************************************************)
\* The routing fields of a request need no session and no default any more.
Routed(r) ==
  /\ r.message_type # Empty
  /\ ~ (Len(r.session) < 3) => r.platform # Empty /\ r.target_id # Empty

LEMMA RoutingIsFilled ==
  ASSUME NEW q \in Requests
  PROVE  /\ Grouped(Parsed(q)) \in Requests
         /\ Routed(Grouped(Parsed(q)))
         /\ Grouped(Parsed(q)).session = q.session
         /\ Grouped(Parsed(q)).messages = q.messages
         /\ Grouped(Parsed(q)).adapter_id = q.adapter_id
<1>1. PICK p : p = Parsed(q)
  OBVIOUS
<1>2. /\ p \in Requests
      /\ p.session = q.session /\ p.messages = q.messages /\ p.adapter_id = q.adapter_id
      /\ ~ (Len(q.session) < 3) => p.platform # Empty /\ p.message_type # Empty /\ p.target_id # Empty
  <2>1. CASE Len(q.session) < 3
    BY <1>1, <2>1 DEF Parsed
  <2>2. CASE ~ (Len(q.session) < 3)
    <3>1. q.session \in Strings /\ q.platform \in Strings /\ q.message_type \in Strings /\ q.target_id \in Strings
      BY DEF Requests
    <3>2. /\ Or(q.platform, <<q.session[1]>>) \in Strings \ {Empty}
          /\ Or(q.message_type, <<q.session[2]>>) \in Strings \ {Empty}
          /\ Or(q.target_id, SubSeq(q.session, 3, Len(q.session))) \in Strings \ {Empty}
      <4>1. /\ <<q.session[1]>> \in Strings \ {Empty} /\ <<q.session[2]>> \in Strings \ {Empty}
            /\ SubSeq(q.session, 3, Len(q.session)) \in Strings \ {Empty}
        BY <2>2, <3>1, SessionTarget
      <4>2. \A u \in Strings, v \in Strings \ {Empty} : Or(u, v) \in Strings \ {Empty}
        BY DEF Or
      <4> QED BY <3>1, <4>1, <4>2
    <3>3. PICK a \in Strings, b \in Strings, c \in Strings :
            /\ a = Or(q.platform, <<q.session[1]>>) /\ a # Empty
            /\ b = Or(q.message_type, <<q.session[2]>>) /\ b # Empty
            /\ c = Or(q.target_id, SubSeq(q.session, 3, Len(q.session))) /\ c # Empty
      BY <3>2
    <3>4. p = [q EXCEPT !.platform = a, !.message_type = b, !.target_id = c]
      BY <1>1, <2>2, <3>3 DEF Parsed
    <3> QED BY <3>3, <3>4 DEF Requests
  <2> QED BY <2>1, <2>2
<1>3. PICK t \in Strings : t = Or(p.message_type, <<"group">>) /\ t # Empty
  <2>1. p.message_type \in Strings
    BY <1>2 DEF Requests
  <2> QED BY <2>1, Singleton, OrPicks, RoutingAssumption
<1>4. Grouped(p) = [p EXCEPT !.message_type = t]
  BY <1>3 DEF Grouped
<1>5. /\ Grouped(p) \in Requests
      /\ Grouped(p).session = p.session /\ Grouped(p).messages = p.messages
      /\ Grouped(p).adapter_id = p.adapter_id
      /\ Grouped(p).message_type = t
      /\ Grouped(p).platform = p.platform /\ Grouped(p).target_id = p.target_id
  BY <1>2, <1>4 DEF Requests
<1> QED BY <1>1, <1>2, <1>3, <1>5 DEF Routed

LEMMA RoutedStays ==
  ASSUME NEW r \in Requests, Routed(r)
  PROVE  Grouped(Parsed(r)) = r
<1>1. Parsed(r) = r
  <2>1. CASE Len(r.session) < 3
    BY <2>1 DEF Parsed
  <2>2. CASE ~ (Len(r.session) < 3)
    <3>1. Or(r.platform, <<r.session[1]>>) = r.platform
      BY <2>2 DEF Routed, Or
    <3>2. Or(r.message_type, <<r.session[2]>>) = r.message_type
      BY DEF Routed, Or
    <3>3. Or(r.target_id, SubSeq(r.session, 3, Len(r.session))) = r.target_id
      BY <2>2 DEF Routed, Or
    <3>4. Parsed(r) = [r EXCEPT !.platform = r.platform, !.message_type = r.message_type, !.target_id = r.target_id]
      BY <2>2, <3>1, <3>2, <3>3 DEF Parsed
    <3> QED BY <3>4 DEF Requests
  <2> QED BY <2>1, <2>2
<1>2. Or(r.message_type, <<"group">>) = r.message_type
  BY DEF Routed, Or
<1>3. Grouped(r) = [r EXCEPT !.message_type = r.message_type]
  BY <1>2 DEF Grouped
<1>4. Grouped(r) = r
  BY <1>3 DEF Requests
<1> QED BY <1>1, <1>4

\* A message that has taken what it lacked lacks nothing.
LEMMA CompletedStays ==
  ASSUME NEW m \in Messages, NEW r \in Requests, NEW s \in Requests,
         s.platform = r.platform, s.message_type = r.message_type, s.target_id = r.target_id
  PROVE  /\ Completed(m, r) \in Messages
         /\ Completed(Completed(m, r), s) = Completed(m, r)
<1>1. PICK a, b, c, d, e :
        /\ a = Or(m.platform, r.platform) /\ b = Or(m.message_type, r.message_type)
        /\ c = Or(m.target_id, r.target_id) /\ d = Or(m.content, m.text) /\ e = Attached(m)
  OBVIOUS
<1>2. a \in Strings /\ b \in Strings /\ c \in Strings /\ d \in Strings /\ e \in Nat
  BY <1>1, OrPicks DEF Messages, Requests, Attached
<1>3. PICK n : n = [m EXCEPT !.platform = a, !.message_type = b, !.target_id = c, !.content = d, !.attachments = e]
  OBVIOUS
<1>4. Completed(m, r) = n
  BY <1>1, <1>3 DEF Completed
<1>5. /\ n \in Messages /\ n.platform = a /\ n.message_type = b /\ n.target_id = c
      /\ n.content = d /\ n.text = m.text /\ n.attachments = e /\ n.type = m.type /\ n.url = m.url
  BY <1>2, <1>3 DEF Messages
<1>6. Or(a, s.platform) = a /\ Or(b, s.message_type) = b /\ Or(c, s.target_id) = c /\ Or(d, n.text) = d
  BY <1>1, <1>5 DEF Or
<1>7. Attached(n) = e
  BY <1>1, <1>5 DEF Attached
<1>8. Completed(n, s) = [n EXCEPT !.platform = a, !.message_type = b, !.target_id = c, !.content = d, !.attachments = e]
  BY <1>5, <1>6, <1>7 DEF Completed
<1>9. Completed(n, s) = n
  BY <1>5, <1>8 DEF Messages
<1> QED BY <1>4, <1>5, <1>9

\* The messages of a request, completed one by one.
LEMMA ListIsCompleted ==
  ASSUME NEW l \in Seq(Messages), NEW r \in Requests
  PROVE  LET n == [i \in DOMAIN l |-> Completed(l[i], r)]
         IN  /\ n \in Seq(Messages) /\ DOMAIN n = DOMAIN l
             /\ \A i \in DOMAIN l : n[i] = Completed(l[i], r)
             /\ l # <<>> => n # <<>>
<1>1. /\ Len(l) \in Nat /\ DOMAIN l = 1..Len(l)
      /\ \A i \in 1..Len(l) : Completed(l[i], r) \in Messages
  BY CompletedStays
<1>2. PICK n : n = [i \in 1..Len(l) |-> Completed(l[i], r)]
  OBVIOUS
<1>3. n \in [1..Len(l) -> Messages]
  BY <1>1, <1>2
<1>4. n \in Seq(Messages) /\ Len(n) = Len(l)
  BY <1>1, <1>3
<1>5. l # <<>> => n # <<>>
  BY <1>1, <1>4, EmptySeq
<1> QED BY <1>1, <1>2, <1>3, <1>4, <1>5

\* A request with messages: all of them are completed, and that is all.
LEMMA ListStays ==
  ASSUME NEW r \in Requests, Routed(r), r.messages # <<>>,
         NEW n, n = [r EXCEPT !.messages = [i \in DOMAIN r.messages |-> Completed(r.messages[i], r)]]
  PROVE  /\ n \in Requests
         /\ NormalizeSendMessageRequest(n) = n
<1>1. PICK l : l = [i \in DOMAIN r.messages |-> Completed(r.messages[i], r)]
  OBVIOUS
<1>2. n = [r EXCEPT !.messages = l]
  BY <1>1
<1>3. r.messages \in Seq(Messages)
  BY DEF Requests
<1>4. /\ l \in Seq(Messages) /\ DOMAIN l = DOMAIN r.messages /\ l # <<>>
      /\ \A i \in DOMAIN l : l[i] = Completed(r.messages[i], r)
  BY <1>1, <1>3, ListIsCompleted
<1>5. /\ n \in Requests /\ n.messages = l
      /\ n.platform = r.platform /\ n.message_type = r.message_type
      /\ n.target_id = r.target_id /\ n.session = r.session
  BY <1>2, <1>4 DEF Requests
<1>6. Grouped(Parsed(n)) = n
  BY <1>5, RoutedStays DEF Routed
<1>7. ASSUME NEW i \in DOMAIN l PROVE Completed(l[i], n) = l[i]
  <2>1. r.messages[i] \in Messages
    BY <1>3, <1>4
  <2>2. Completed(Completed(r.messages[i], r), n) = Completed(r.messages[i], r)
    BY <1>5, <2>1, CompletedStays
  <2> QED BY <1>4, <2>2
<1>8. [i \in DOMAIN l |-> Completed(l[i], n)] = l
  <2>1. l = [i \in DOMAIN l |-> l[i]]
    BY <1>4
  <2> QED BY <1>7, <2>1
<1>9. NormalizeSendMessageRequest(n) = [n EXCEPT !.messages = [i \in DOMAIN l |-> Completed(l[i], n)]]
  <2>1. n = Grouped(Parsed(n)) /\ n.messages # <<>> /\ n.messages = l
    BY <1>4, <1>5, <1>6
  <2>2. NormalizeSendMessageRequest(n)
          = [n EXCEPT !.messages = [i \in DOMAIN n.messages |-> Completed(n.messages[i], n)]]
    BY <2>1 DEF NormalizeSendMessageRequest
  <2> QED BY <2>1, <2>2
<1>10. NormalizeSendMessageRequest(n) = [n EXCEPT !.messages = n.messages]
  BY <1>5, <1>8, <1>9
<1> QED BY <1>5, <1>10 DEF Requests

\* A request without messages: its content becomes one.
LEMMA ContentStays ==
  ASSUME NEW r \in Requests, Routed(r), NEW content \in Strings,
         NEW m, m = [Message EXCEPT
             !.type = <<"plain">>, !.platform = r.platform, !.message_type = r.message_type,
             !.target_id = r.target_id, !.content = content, !.text = content,
             !.attachments = r.attachments],
         NEW n, n = [r EXCEPT !.messages = <<m>>]
  PROVE  /\ n \in Requests
         /\ NormalizeSendMessageRequest(n) = n
<1>1. m = [type |-> <<"plain">>, platform |-> r.platform, message_type |-> r.message_type,
           target_id |-> r.target_id, content |-> content, text |-> content,
           url |-> Empty, attachments |-> r.attachments]
  BY DEF Message
<1>2. Empty \in Strings /\ <<"plain">> \in Strings
  BY EmptySeq, Singleton, RoutingAssumption DEF Empty, Strings
<1>3. m \in Messages
  BY <1>1, <1>2 DEF Requests, Messages
<1>4. Completed(m, r) = m
  <2>1. /\ Or(m.platform, r.platform) = m.platform /\ Or(m.message_type, r.message_type) = m.message_type
        /\ Or(m.target_id, r.target_id) = m.target_id /\ Or(m.content, m.text) = m.content
    BY <1>1 DEF Or
  <2>2. Attached(m) = m.attachments
    <3>1. <<"plain">> \notin Media
      BY DEF Media
    <3>2. m.type \notin Media
      BY <1>1, <3>1
    <3> QED BY <3>2 DEF Attached
  <2>3. Completed(m, r) = [m EXCEPT !.platform = m.platform, !.message_type = m.message_type,
                             !.target_id = m.target_id, !.content = m.content, !.attachments = m.attachments]
    BY <2>1, <2>2 DEF Completed
  <2> QED BY <1>3, <2>3 DEF Messages
<1>5. <<m>> \in Seq(Messages) /\ <<m>> # <<>> /\ DOMAIN <<m>> = {1} /\ <<m>>[1] = m
  BY <1>3
<1>6. /\ n \in Requests /\ n.messages = <<m>>
      /\ n.platform = r.platform /\ n.message_type = r.message_type
      /\ n.target_id = r.target_id /\ n.session = r.session
  BY <1>5 DEF Requests
<1>7. Grouped(Parsed(n)) = n
  BY <1>6, RoutedStays DEF Routed
<1>8. Completed(m, n) = m
  <2>1. Completed(Completed(m, r), n) = Completed(m, r)
    BY <1>3, <1>6, CompletedStays, Zenon
  <2> QED BY <1>4, <2>1
<1>9. [i \in DOMAIN n.messages |-> Completed(n.messages[i], n)] = n.messages
  BY <1>5, <1>6, <1>8
<1>10. NormalizeSendMessageRequest(n) = [n EXCEPT !.messages = [i \in DOMAIN n.messages |-> Completed(n.messages[i], n)]]
  <2>1. n = Grouped(Parsed(n)) /\ n.messages # <<>>
    BY <1>5, <1>6, <1>7
  <2> QED BY <2>1 DEF NormalizeSendMessageRequest
<1>11. NormalizeSendMessageRequest(n) = [n EXCEPT !.messages = n.messages]
  BY <1>9, <1>10
<1> QED BY <1>6, <1>11 DEF Requests

\* What the normalization of a request returns, it returns unchanged.
LEMMA NormalizationStays ==
  ASSUME NEW q \in Requests, NormalizeSendMessageRequest(q) # None
  PROVE  /\ NormalizeSendMessageRequest(q) \in Requests
         /\ NormalizeSendMessageRequest(NormalizeSendMessageRequest(q)) = NormalizeSendMessageRequest(q)
<1>1. PICK r : r = Grouped(Parsed(q))
  OBVIOUS
<1>2. r \in Requests /\ Routed(r)
  BY <1>1, RoutingIsFilled
<1>3. CASE r.messages # <<>>
  <2>1. PICK n : n = [r EXCEPT !.messages = [i \in DOMAIN r.messages |-> Completed(r.messages[i], r)]]
    OBVIOUS
  <2>2. NormalizeSendMessageRequest(q) = n
    BY <1>1, <1>3, <2>1 DEF NormalizeSendMessageRequest
  <2>3. n \in Requests /\ NormalizeSendMessageRequest(n) = n
    BY <1>2, <1>3, <2>1, ListStays
  <2> QED BY <2>2, <2>3
<1>4. CASE r.messages = <<>>
  <2>1. PICK content, m :
          /\ content = Or(r.content, r.text)
          /\ m = [Message EXCEPT
               !.type = <<"plain">>, !.platform = r.platform, !.message_type = r.message_type,
               !.target_id = r.target_id, !.content = content, !.text = content,
               !.attachments = r.attachments]
    OBVIOUS
  <2>2. content \in Strings
    BY <1>2, <2>1, OrPicks DEF Requests
  <2>3. PICK n : n = [r EXCEPT !.messages = <<m>>]
    OBVIOUS
  <2>4. NormalizeSendMessageRequest(q) = n
    BY <1>1, <1>4, <2>1, <2>3 DEF NormalizeSendMessageRequest
  <2>5. n \in Requests /\ NormalizeSendMessageRequest(n) = n
    BY <1>2, <2>1, <2>2, <2>3, ContentStays
  <2> QED BY <2>4, <2>5
<1> QED BY <1>3, <1>4
-----------------------------------------------------------------------------
\* An event is normalized to variables that are text; its platform is never
\* left open.
LEMMA EventIsText ==
  ASSUME NEW in \in Events
  PROVE  /\ DOMAIN Normalize(in) = {"PLATFORM", "SESSION_ID", "USER_ID", "GROUP_ID"}
         /\ \A v \in DOMAIN Normalize(in) : Normalize(in)[v] \in Strings
         /\ Normalize(in).PLATFORM # Empty
         /\ Normalize(in).USER_ID = Or(in.user_id, in.sender_qq)
         /\ Normalize(in).GROUP_ID = Or(in.group_id, in.current_group)
<1>1. \A f \in {in.platform, in.session_id, in.user_id, in.group_id, in.sender_qq, in.current_group} : f \in Strings
  BY DEF Events
<1>2. PICK user, group, legacy :
        /\ user = Or(in.user_id, in.sender_qq) /\ group = Or(in.group_id, in.current_group)
        /\ legacy = IF in.sender_qq # Empty \/ in.current_group # Empty THEN <<"qq">> ELSE <<"default">>
  OBVIOUS
<1>3. user \in Strings /\ group \in Strings /\ group \o user \in Strings
  <2>1. user \in Strings /\ group \in Strings
    BY <1>1, <1>2, OrPicks
  <2> QED BY <2>1 DEF Strings
<1>4. legacy \in Strings /\ legacy # Empty
  BY <1>2, Singleton, RoutingAssumption
<1>5. PICK p, s : p = Or(in.platform, legacy) /\ s = Or(in.session_id, group \o user)
  OBVIOUS
<1>6. p \in Strings /\ s \in Strings /\ p # Empty
  BY <1>1, <1>3, <1>4, <1>5, OrPicks
<1>7. Normalize(in) = [PLATFORM |-> p, SESSION_ID |-> s, USER_ID |-> user, GROUP_ID |-> group]
  BY <1>2, <1>5 DEF Normalize
<1> QED BY <1>2, <1>3, <1>6, <1>7

\* What the program reads: the delivery context, then state, event, captures.
LEMMA EnvironmentOrder ==
  ASSUME NEW v \in Variables
  PROVE  Getenv(PlannedEnv)[v] =
           IF v \in DOMAIN Environment THEN Environment[v]
           ELSE IF v \in DOMAIN trigger.injected THEN trigger.injected[v]
           ELSE IF v \in DOMAIN EventEnv THEN EventEnv[v]
           ELSE IF v \in DOMAIN trigger.captures THEN trigger.captures[v]
           ELSE Empty
<1>1. Getenv(trigger.captures)[v] = IF v \in DOMAIN trigger.captures THEN trigger.captures[v] ELSE Empty
  BY DEF Getenv
<1> QED BY <1>1, LastWriterWins DEF PlannedEnv

\* What a trigger is made of.
LEMMA TriggerShape ==
  ASSUME trigger \in Triggers
  PROVE  /\ trigger.kind \in {"event", "schedule"}
         /\ trigger.kind = "event" => trigger.in \in Events
         /\ trigger.kind = "schedule" =>
              /\ trigger.captures = Empty
              /\ trigger.delivery # None =>
                   trigger.delivery \in [Variables -> Strings] /\ Validate(trigger.delivery)
         /\ \A v \in DOMAIN trigger.injected : trigger.injected[v] \in Strings
         /\ \A v \in DOMAIN trigger.captures : trigger.captures[v] \in Strings
<1>1. CASE trigger \in [kind : {"event"}, in : Incoming, captures : Captures, injected : Injections]
  BY <1>1, RoutingAssumption
<1>2. CASE trigger \in [kind : {"schedule"}, delivery : {d \in Deliveries \cup {None} : Validate(d)},
                        captures : {Empty}, injected : Injections]
  <2>1. DOMAIN Empty = {}
    BY DEF Empty
  <2> QED BY <1>2, <2>1, RoutingAssumption
<1> QED BY <1>1, <1>2 DEF Triggers

LEMMA EnvironmentIsText ==
  ASSUME trigger \in Triggers
  PROVE  Getenv(PlannedEnv) \in [Variables -> Strings]
<1> SUFFICES ASSUME NEW v \in Variables PROVE Getenv(PlannedEnv)[v] \in Strings
  BY DEF Getenv
<1>1. Empty \in Strings /\ DOMAIN Empty = {}
  BY EmptySeq DEF Empty, Strings
<1>2. v \in DOMAIN Environment => Environment[v] \in Strings
  BY <1>1, TriggerShape DEF Environment
<1>3. v \in DOMAIN EventEnv => EventEnv[v] \in Strings
  BY <1>1, TriggerShape, EventIsText DEF EventEnv
<1> QED BY <1>1, <1>2, <1>3, EnvironmentOrder, TriggerShape

\* A reply with an address goes there: every message of it, and after any
\* number of normalizations.
LEMMA ReplyIsAddressed ==
  ASSUME NEW c \in [Variables -> Strings], NEW type \in Strings, NEW target \in Strings,
         Address(c) = <<type, target>>, c.PLATFORM # Empty, type # Empty, target # Empty,
         NEW n, n = NormalizeSendMessageRequest(Reply(c))
  PROVE  /\ Reply(c) \in Requests /\ n \in Requests /\ n # None
         /\ n.adapter_id = c.ADAPTER_ID
         /\ \A i \in DOMAIN n.messages :
              /\ n.messages[i].platform = c.PLATFORM
              /\ n.messages[i].message_type = type
              /\ n.messages[i].target_id = target
<1>1. PICK p, s, a, m :
        p = c.PLATFORM /\ s = c.SESSION_ID /\ a = c.ADAPTER_ID /\ m = Plain(<<"hello">>)
  OBVIOUS
<1>2. p \in Strings /\ s \in Strings /\ a \in Strings /\ p # Empty
  BY <1>1 DEF Variables
<1>3. Empty \in Strings /\ <<"plain">> \in Strings /\ <<"hello">> \in Strings
  BY EmptySeq, Singleton, RoutingAssumption DEF Empty, Strings
<1>4. /\ m \in Messages /\ m.platform = Empty /\ m.message_type = Empty /\ m.target_id = Empty
  <2>1. m = [type |-> <<"plain">>, platform |-> Empty, message_type |-> Empty, target_id |-> Empty,
             content |-> Empty, text |-> <<"hello">>, url |-> Empty, attachments |-> 0]
    BY <1>1 DEF Plain, Message
  <2> QED BY <1>3, <2>1 DEF Messages
<1>5. PICK q : q = [platform |-> p, message_type |-> type, target_id |-> target, session |-> s,
                    adapter_id |-> a, content |-> Empty, text |-> Empty, attachments |-> 0,
                    instance_id |-> Empty, messages |-> <<m>>]
  OBVIOUS
<1>6. Reply(c) = q
  <2>1. Address(c)[1] = type /\ Address(c)[2] = target
    OBVIOUS
  <2>2. Reply(c) = [Request EXCEPT !.platform = p, !.message_type = type, !.target_id = target,
                      !.session = s, !.adapter_id = a, !.messages = <<m>>]
    BY <1>1, <2>1 DEF Reply
  <2>3. Reply(c) = [platform |-> p, message_type |-> type, target_id |-> target, session |-> s,
                    adapter_id |-> a, content |-> Empty, text |-> Empty, attachments |-> 0,
                    instance_id |-> Empty, messages |-> <<m>>]
    BY <2>2 DEF Request
  <2> QED BY <1>5, <2>3
<1>7. <<m>> \in Seq(Messages) /\ <<m>> # <<>> /\ DOMAIN <<m>> = {1} /\ <<m>>[1] = m
  BY <1>4
<1>8. /\ q \in Requests /\ q.messages = <<m>> /\ q.platform = p /\ q.message_type = type
      /\ q.target_id = target /\ q.adapter_id = a
  BY <1>2, <1>3, <1>5, <1>7 DEF Requests
<1>9. Grouped(Parsed(q)) = q
  BY <1>2, <1>8, RoutedStays DEF Routed
<1>10. n = [q EXCEPT !.messages = [i \in DOMAIN q.messages |-> Completed(q.messages[i], q)]]
  BY <1>6, <1>7, <1>8, <1>9 DEF NormalizeSendMessageRequest
<1>11. n \in Requests
  BY <1>7, <1>8, <1>9, <1>10, RoutingIsFilled, ListStays
<1>12. /\ n.messages = [i \in {1} |-> Completed(m, q)] /\ n.adapter_id = a
  BY <1>7, <1>8, <1>10 DEF Requests
<1>13. /\ Completed(m, q).platform = p /\ Completed(m, q).message_type = type
       /\ Completed(m, q).target_id = target
  <2>1. Or(m.platform, q.platform) = p /\ Or(m.message_type, q.message_type) = type
        /\ Or(m.target_id, q.target_id) = target
    BY <1>4, <1>8 DEF Or
  <2> QED BY <1>4, <2>1 DEF Completed, Messages
<1>14. n # None
  BY <1>11, RoutingAssumption
<1> QED BY <1>1, <1>6, <1>8, <1>11, <1>12, <1>13, <1>14
-----------------------------------------------------------------------------
(***************************************************************************)
(* The inductive invariant: every variable is the result of its stage, and *)
(* nothing that an earlier stage made is changed by a later one.           *)
(***************************************************************************)
Stages == {"triggered", "running", "refused", "replying", "sending", "replied", "sent"}

Inv ==
  /\ trigger \in Triggers
  /\ stage \in Stages
  /\ stage # "triggered" => env = Getenv(PlannedEnv)
  /\ stage \in {"replying", "replied"} => request = Reply(env) /\ request # None
  /\ stage \in {"sending", "sent"} => request \in Bodies
  /\ stage \in {"triggered", "running", "refused"} => forwarded = None
  /\ forwarded # None => forwarded = NormalizeSendMessageRequest(request)
  /\ stage \in {"replied", "sent"} =>
       forwarded # None /\ delivered = NormalizeSendMessageRequest(forwarded)
  /\ stage \notin {"replied", "sent"} => delivered = None

LEMMA InitInv == Init => Inv
BY DEF Init, Inv, Stages

LEMMA StepInv == Inv /\ [Next]_vars => Inv'
<1> SUFFICES ASSUME Inv, [Next]_vars PROVE Inv'
  OBVIOUS
<1> USE DEF Inv, Stages
<1>1. CASE Plan
  <2>1. PlannedEnv' = PlannedEnv
    BY <1>1 DEF Plan, PlannedEnv, Environment, EventEnv
  <2>2. Getenv(PlannedEnv)' = Getenv(PlannedEnv)
    BY <2>1 DEF Getenv
  <2> QED BY <1>1, <2>2 DEF Plan
<1>2. ASSUME UNCHANGED <<trigger, env>> PROVE (env = Getenv(PlannedEnv))' <=> env = Getenv(PlannedEnv)
  BY <1>2 DEF PlannedEnv, Getenv, Environment, EventEnv
<1> HIDE DEF Inv
<1>3. CASE CallReply
  <2>1. (env = Getenv(PlannedEnv))'
    BY <1>2, <1>3 DEF CallReply, Inv
  <2> QED BY <1>3, <2>1 DEF CallReply, Inv
<1>4. CASE CallSend
  <2>1. (env = Getenv(PlannedEnv))'
    BY <1>2, <1>4 DEF CallSend, Inv
  <2> QED BY <1>4, <2>1 DEF CallSend, Inv
<1>5. CASE Forward
  <2>1. (env = Getenv(PlannedEnv))'
    BY <1>2, <1>5 DEF Forward, Inv
  <2> QED BY <1>5, <2>1 DEF Forward, Inv
<1>6. CASE Deliver
  <2>1. (env = Getenv(PlannedEnv))'
    BY <1>2, <1>6 DEF Deliver, Inv
  <2> QED BY <1>6, <2>1 DEF Deliver, Inv
<1>7. CASE UNCHANGED vars
  <2>1. stage # "triggered" => (env = Getenv(PlannedEnv))'
    BY <1>2, <1>7 DEF vars, Inv
  <2> QED BY <1>7, <2>1 DEF vars, Inv
<1> QED BY <1>1, <1>3, <1>4, <1>5, <1>6, <1>7 DEF Next

\* The inductive invariant holds in every state of every behaviour.
THEOREM InvHolds == Spec => []Inv
BY InitInv, StepInv, PTL DEF Spec

-----------------------------------------------------------------------------
\* Every request that is sent on is one of the protocol, however it was made.
LEMMA RequestsAreTyped ==
  ASSUME Inv, stage \in {"replied", "sent"}
  PROVE  request \in Requests
<1>1. CASE stage = "sent"
  BY <1>1, RoutingAssumption DEF Inv
<1>2. CASE stage = "replied"
  <2>1. env \in [Variables -> Strings] /\ request = Reply(env) /\ request # None
    BY <1>2, EnvironmentIsText DEF Inv
  <2>2. env.TARGET_ID \in Strings /\ env.GROUP_ID \in Strings /\ env.USER_ID \in Strings
        /\ env.SESSION_ID \in Strings /\ env.PLATFORM \in Strings /\ env.ADAPTER_ID \in Strings
        /\ env.MESSAGE_TYPE \in Strings
    BY <2>1 DEF Variables
  <2>3. Empty \in Strings /\ <<"group">> \in Strings /\ <<"private">> \in Strings
        /\ <<"plain">> \in Strings /\ <<"hello">> \in Strings
    BY EmptySeq, Singleton, RoutingAssumption DEF Empty, Strings
  <2>4. Address(env)[1] \in Strings /\ Address(env)[2] \in Strings
    BY <2>2, <2>3 DEF Address
  <2>5. PICK m : m = Plain(<<"hello">>)
    OBVIOUS
  <2>6. m \in Messages
    <3>1. m = [type |-> <<"plain">>, platform |-> Empty, message_type |-> Empty, target_id |-> Empty,
               content |-> Empty, text |-> <<"hello">>, url |-> Empty, attachments |-> 0]
      BY <2>5 DEF Plain, Message
    <3> QED BY <2>3, <3>1 DEF Messages
  <2>7. PICK p, t, g, s, a :
          p = env.PLATFORM /\ t = Address(env)[1] /\ g = Address(env)[2] /\ s = env.SESSION_ID /\ a = env.ADAPTER_ID
    OBVIOUS
  <2>8. request = [Request EXCEPT !.platform = p, !.message_type = t, !.target_id = g,
                     !.session = s, !.adapter_id = a, !.messages = <<m>>]
    BY <2>1, <2>5, <2>7 DEF Reply
  <2>9. <<m>> \in Seq(Messages)
    BY <2>6
  <2>10. request = [platform |-> p, message_type |-> t, target_id |-> g, session |-> s,
                    adapter_id |-> a, content |-> Empty, text |-> Empty, attachments |-> 0,
                    instance_id |-> Empty, messages |-> <<m>>]
    BY <2>8 DEF Request
  <2> QED BY <2>2, <2>3, <2>4, <2>7, <2>9, <2>10 DEF Requests
<1> QED BY <1>1, <1>2

\* What FrostAgent receives is what the runtime API checked: normalizing it a
\* second time, in the client, changes nothing, whatever the program sent.
THEOREM SecondNormalizationIsIdle == Spec => []NormalizedTwiceIsOnce
<1>1. Inv => NormalizedTwiceIsOnce
  <2> SUFFICES ASSUME Inv, delivered # None PROVE delivered = forwarded
    BY DEF NormalizedTwiceIsOnce
  <2>1. stage \in {"replied", "sent"} /\ forwarded # None
        /\ forwarded = NormalizeSendMessageRequest(request)
        /\ delivered = NormalizeSendMessageRequest(forwarded)
    BY DEF Inv
  <2> QED BY <2>1, RequestsAreTyped, NormalizationStays
<1> QED BY <1>1, InvHolds, PTL

\* What became of a reply that had an address.
LEMMA ReplyArrives ==
  ASSUME Inv, stage = "replied", NEW type \in Strings, NEW target \in Strings,
         Address(env) = <<type, target>>, env.PLATFORM # Empty, type # Empty, target # Empty
  PROVE  Goes(env.PLATFORM, type, target) /\ delivered.adapter_id = env.ADAPTER_ID
<1>1. env \in [Variables -> Strings] /\ request = Reply(env)
  BY EnvironmentIsText DEF Inv
<1>2. PICK n : n = NormalizeSendMessageRequest(Reply(env))
  OBVIOUS
<1>3. /\ Reply(env) \in Requests /\ n # None /\ n.adapter_id = env.ADAPTER_ID
      /\ \A i \in DOMAIN n.messages :
           /\ n.messages[i].platform = env.PLATFORM
           /\ n.messages[i].message_type = type
           /\ n.messages[i].target_id = target
  BY <1>1, <1>2, ReplyIsAddressed
<1>4. delivered = n
  BY <1>1, <1>2, <1>3, NormalizationStays DEF Inv
<1> QED BY <1>3, <1>4 DEF Goes

\* A scheduled reply goes to the target of its context, by its adapter, whatever
\* the state of the action holds: the context is written over the state.
THEOREM ScheduledRepliesArrive == Spec => []ScheduledReplyReachesTarget
<1>1. Inv => ScheduledReplyReachesTarget
  <2> SUFFICES ASSUME Inv, stage = "replied", trigger.kind = "schedule", trigger.delivery # None,
                      NEW d, d = trigger.delivery
               PROVE  Goes(d.PLATFORM, d.MESSAGE_TYPE, d.TARGET_ID) /\ delivered.adapter_id = d.ADAPTER_ID
    BY DEF ScheduledReplyReachesTarget
  <2>1. d \in [Variables -> Strings] /\ Validate(d)
    BY TriggerShape DEF Inv
  <2>2. /\ d.PLATFORM # Empty /\ d.TARGET_ID # Empty
        /\ d.MESSAGE_TYPE \in {<<"group">>, <<"private">>}
    BY <2>1 DEF Validate
  <2>3. env = Getenv(PlannedEnv) /\ Environment = d
    BY DEF Inv, Environment
  <2>4. \A v \in Variables : env[v] = d[v]
    BY <2>1, <2>3, EnvironmentOrder
  <2>5. /\ env.PLATFORM = d.PLATFORM /\ env.TARGET_ID = d.TARGET_ID
        /\ env.MESSAGE_TYPE = d.MESSAGE_TYPE /\ env.ADAPTER_ID = d.ADAPTER_ID
    BY <2>4 DEF Variables
  <2>6. Address(env) = <<d.MESSAGE_TYPE, d.TARGET_ID>>
    BY <2>2, <2>5 DEF Address, Explicit
  <2>7. d.MESSAGE_TYPE \in Strings /\ d.TARGET_ID \in Strings
    BY <2>1 DEF Variables
  <2>8. d.MESSAGE_TYPE # Empty
    BY <2>2, Singleton, RoutingAssumption
  <2> QED BY <2>2, <2>5, <2>6, <2>7, <2>8, ReplyArrives
<1> QED BY <1>1, InvHolds, PTL

\* A reply goes back where its event came from, in both formats of a request:
\* to the group if there is one, else privately to the sender.
THEOREM RepliesReturn == Spec => []ReplyReachesOrigin
<1>1. Inv => ReplyReachesOrigin
  <2> SUFFICES ASSUME Inv, stage = "replied", trigger.kind = "event",
                      DOMAIN trigger.captures \cap Variables
                        \subseteq {"PLATFORM", "SESSION_ID", "USER_ID", "GROUP_ID"},
                      DOMAIN trigger.injected \cap Variables = {},
                      NEW in, in = trigger.in,
                      NEW group, group = Or(in.group_id, in.current_group),
                      NEW user, user = Or(in.user_id, in.sender_qq)
               PROVE  /\ group # Empty => Goes(Normalize(in).PLATFORM, <<"group">>, group)
                      /\ group = Empty /\ user # Empty => Goes(Normalize(in).PLATFORM, <<"private">>, user)
    BY DEF ReplyReachesOrigin
  <2>1. in \in Events
    BY TriggerShape DEF Inv
  <2>2. env = Getenv(PlannedEnv) /\ DOMAIN Environment = {} /\ EventEnv = Normalize(in)
    BY DEF Inv, Environment, EventEnv, Empty
  <2>3. \A v \in Variables : v \notin DOMAIN trigger.injected
    OBVIOUS
  <2>4. \A v \in Variables : env[v] =
          IF v \in DOMAIN EventEnv THEN EventEnv[v]
          ELSE IF v \in DOMAIN trigger.captures THEN trigger.captures[v] ELSE Empty
    BY <2>2, <2>3, EnvironmentOrder
  <2>5. /\ env.PLATFORM = Normalize(in).PLATFORM /\ env.GROUP_ID = group /\ env.USER_ID = user
        /\ env.TARGET_ID = Empty /\ Normalize(in).PLATFORM # Empty
    BY <2>1, <2>2, <2>4, EventIsText DEF Variables
  <2>6. group \in Strings /\ user \in Strings
    BY <2>1, OrPicks DEF Events
  <2>7. /\ <<"group">> \in Strings /\ <<"group">> # Empty
        /\ <<"private">> \in Strings /\ <<"private">> # Empty
    BY Singleton, RoutingAssumption
  <2>8. CASE group # Empty
    <3>1. Address(env) = <<<<"group">>, group>>
      BY <2>5, <2>8 DEF Address, Explicit
    <3> QED BY <2>5, <2>6, <2>7, <2>8, <3>1, ReplyArrives
  <2>9. CASE group = Empty /\ user # Empty
    <3>1. Address(env) = <<<<"private">>, user>>
      BY <2>5, <2>9 DEF Address, Explicit
    <3> QED BY <2>5, <2>6, <2>7, <2>9, <3>1, ReplyArrives
  <2> QED BY <2>8, <2>9
<1> QED BY <1>1, InvHolds, PTL
=============================================================================
