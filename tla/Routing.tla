------------------------------ MODULE Routing -------------------------------
(***************************************************************************)
(* Where a message of an action goes: from the event or schedule that      *)
(* triggered its run (internal/api/dispatch.go, internal/domain/delivery.go) *)
(* through the planned environment (internal/runner/runner.go), the SDK    *)
(* in the sandbox (pkg/actionscat/sdk.go), the runtime API and the         *)
(* FrostAgent client (internal/frostagent/client.go), one step for each.   *)
(* A string is the sequence of its parts between colons, so that <<>> is   *)
(* "", concatenation is formatting with ":", and Split is the identity.    *)
(* The inputs hold no blanks around a value and no empty part.             *)
(***************************************************************************)
EXTENDS Naturals, Sequences

CONSTANTS
  Parts,       \* what stands between two colons
  Incoming,    \* bodies of dispatch requests
  Captures,    \* variables that a matcher fills from its pattern
  Injections,  \* variables that a version fills from its state
  Deliveries,  \* delivery contexts that callers give schedules
  Malformed,   \* strings with blanks around, line ends, or over 4096 bytes
  Bodies,      \* requests a program sends without Reply
  None         \* a schedule without context; a step that made nothing

Empty == <<>>
\* The suffixes of the ACTIONSCAT_EVENT_ variables that route a message.
Variables == {"PLATFORM", "ADAPTER_ID", "MESSAGE_TYPE", "TARGET_ID",
              "SESSION_ID", "USER_ID", "GROUP_ID"}

Strings == Seq(Parts)
Events == [platform : Strings, session_id : Strings, user_id : Strings, group_id : Strings,
           sender_qq : Strings, current_group : Strings]
Messages == [type : Strings, platform : Strings, message_type : Strings, target_id : Strings,
             content : Strings, text : Strings, url : Strings, attachments : Nat]
Requests == [platform : Strings, message_type : Strings, target_id : Strings, session : Strings,
             adapter_id : Strings, content : Strings, text : Strings, attachments : Nat,
             instance_id : Strings, messages : Seq(Messages)]

ASSUME RoutingAssumption ==
  /\ {"qq", "default", "group", "private", "plain", "hello"} \subseteq Parts
  /\ Incoming \subseteq Events
  /\ \A e \in Captures \cup Injections : \A v \in DOMAIN e : e[v] \in Strings
  /\ Deliveries \subseteq [Variables -> Strings]
  /\ Bodies \subseteq Requests
  /\ None \notin Deliveries \cup Requests

VARIABLES
  stage,      \* what was done last
  trigger,    \* what the run was created for
  env,        \* the variables of the run
  request,    \* what the program sends to the runtime API
  forwarded,  \* what the runtime API passes to the client
  delivered   \* what FrostAgent receives

vars == <<stage, trigger, env, request, forwarded, delivered>>

Or(s, t) == IF s # Empty THEN s ELSE t

-----------------------------------------------------------------------------
\* IncomingEventRequest.Normalize
Normalize(in) ==
  LET user  == Or(in.user_id, in.sender_qq)
      group == Or(in.group_id, in.current_group)
      legacy == in.sender_qq # Empty \/ in.current_group # Empty
  IN [PLATFORM   |-> Or(in.platform, IF legacy THEN <<"qq">> ELSE <<"default">>),
      SESSION_ID |-> Or(in.session_id, group \o user),
      USER_ID    |-> user,
      GROUP_ID   |-> group]

\* DeliveryContext.Validate
Validate(d) ==
  \/ d = None
  \/ /\ \A f \in DOMAIN d : d[f] \notin Malformed
     /\ d.PLATFORM # Empty /\ d.TARGET_ID # Empty
     /\ \/ /\ d.MESSAGE_TYPE = <<"private">>
           /\ d.GROUP_ID = Empty
           /\ d.USER_ID \in {Empty, d.TARGET_ID}
        \/ d.MESSAGE_TYPE = <<"group">> /\ d.GROUP_ID \in {Empty, d.TARGET_ID}

\* The variables the trigger itself sets: of an event, or of a context.
EventEnv == IF trigger.kind = "event" THEN Normalize(trigger.in) ELSE Empty
Environment == IF trigger.kind = "schedule" /\ trigger.delivery # None
               THEN trigger.delivery ELSE Empty

\* The variables of f are written over those of g.
Over(f, g) == [v \in DOMAIN f \cup DOMAIN g |-> IF v \in DOMAIN f THEN f[v] ELSE g[v]]

\* Mutant of PlannedEnv: state injections over the delivery context.
PlannedEnvInjectionsLast ==
  Over(trigger.injected, Over(Environment, Over(EventEnv, trigger.captures)))

\* PrepareRun, last writer first; a variable that is not set reads as "".
PlannedEnv == Over(Environment, Over(trigger.injected, Over(EventEnv, trigger.captures)))

Getenv(e) == [v \in Variables |-> IF v \in DOMAIN e THEN e[v] ELSE Empty]

-----------------------------------------------------------------------------
Message == [type |-> Empty, platform |-> Empty, message_type |-> Empty, target_id |-> Empty,
            content |-> Empty, text |-> Empty, url |-> Empty, attachments |-> 0]
Request == [platform |-> Empty, message_type |-> Empty, target_id |-> Empty, session |-> Empty,
            adapter_id |-> Empty, content |-> Empty, text |-> Empty, attachments |-> 0,
            instance_id |-> Empty, messages |-> <<>>]

Plain(text) == [Message EXCEPT !.type = <<"plain">>, !.text = text]

Explicit(c) == c.TARGET_ID # Empty /\ c.MESSAGE_TYPE \in {<<"group">>, <<"private">>}

\* Mutant of Address: the sender before the group.
AddressSenderFirst(c) ==
  IF Explicit(c) THEN <<c.MESSAGE_TYPE, c.TARGET_ID>>
  ELSE IF c.USER_ID # Empty THEN <<<<"private">>, c.USER_ID>>
  ELSE IF c.GROUP_ID # Empty THEN <<<<"group">>, c.GROUP_ID>>
  ELSE <<Empty, c.SESSION_ID>>

\* The message_type and target_id that Reply takes from the variables c.
Address(c) ==
  IF Explicit(c) THEN <<c.MESSAGE_TYPE, c.TARGET_ID>>
  ELSE IF c.GROUP_ID # Empty THEN <<<<"group">>, c.GROUP_ID>>
  ELSE IF c.USER_ID # Empty THEN <<<<"private">>, c.USER_ID>>
  ELSE <<Empty, c.SESSION_ID>>

\* Reply; None is ErrNoSession.
Reply(c) ==
  IF Address(c)[2] = Empty THEN None
  ELSE [Request EXCEPT !.platform = c.PLATFORM, !.message_type = Address(c)[1],
          !.target_id = Address(c)[2], !.session = c.SESSION_ID,
          !.adapter_id = c.ADAPTER_ID, !.messages = <<Plain(<<"hello">>)>>]

\* The fields of a request that its session fills.
Parsed(r) ==
  IF Len(r.session) < 3 THEN r
  ELSE [r EXCEPT !.platform = Or(@, <<r.session[1]>>),
                 !.message_type = Or(@, <<r.session[2]>>),
                 !.target_id = Or(@, SubSeq(r.session, 3, Len(r.session)))]

Media == {<<"image">>, <<"file">>, <<"video">>, <<"audio">>}

\* Mutant of Attached: the attachment is added whether or not there is one.
AttachedAgain(m) == IF m.type \in Media /\ m.url # Empty THEN m.attachments + 1 ELSE m.attachments

Attached(m) ==
  IF m.type \in Media /\ m.url # Empty /\ m.attachments = 0 THEN 1 ELSE m.attachments

\* A message of the list takes what it lacks from the request.
Completed(m, r) ==
  [m EXCEPT !.platform = Or(@, r.platform), !.message_type = Or(@, r.message_type),
            !.target_id = Or(@, r.target_id), !.content = Or(@, m.text),
            !.attachments = Attached(m)]

Grouped(r) == [r EXCEPT !.message_type = Or(@, <<"group">>)]

\* NormalizeSendMessageRequest; None is ErrInvalidRequest.
NormalizeSendMessageRequest(req) ==
  LET r == Grouped(Parsed(req))
      content == Or(r.content, r.text)
  IN IF r.messages # <<>>
     THEN [r EXCEPT !.messages = [i \in DOMAIN @ |-> Completed(@[i], r)]]
     ELSE IF content = Empty /\ r.attachments = 0 THEN None
     ELSE [r EXCEPT !.messages = <<[Message EXCEPT
             !.type = <<"plain">>, !.platform = r.platform, !.message_type = r.message_type,
             !.target_id = r.target_id, !.content = content, !.text = content,
             !.attachments = r.attachments]>>]

-----------------------------------------------------------------------------
Triggers ==
  [kind : {"event"}, in : Incoming, captures : Captures, injected : Injections]
    \cup [kind : {"schedule"}, delivery : {d \in Deliveries \cup {None} : Validate(d)},
          captures : {Empty}, injected : Injections]

Init ==
  /\ stage = "triggered"
  /\ trigger \in Triggers
  /\ env = [v \in Variables |-> Empty]
  /\ request = None /\ forwarded = None /\ delivered = None

Plan ==
  /\ stage = "triggered"
  /\ stage' = "running"
  /\ env' = Getenv(PlannedEnv)
  /\ UNCHANGED <<trigger, request, forwarded, delivered>>

CallReply ==
  /\ stage = "running"
  /\ request' = Reply(env)
  /\ stage' = IF request' = None THEN "refused" ELSE "replying"
  /\ UNCHANGED <<trigger, env, forwarded, delivered>>

\* The program calls Send or SendMessage, or posts a body of its own.
CallSend ==
  /\ stage = "running"
  /\ request' \in Bodies
  /\ stage' = "sending"
  /\ UNCHANGED <<trigger, env, forwarded, delivered>>

\* HandleFrostAgentSend
Forward ==
  /\ stage \in {"replying", "sending"}
  /\ forwarded' = IF request.instance_id # Empty THEN None
                  ELSE NormalizeSendMessageRequest(request)
  /\ stage' = IF forwarded' = None THEN "refused" ELSE stage
  /\ forwarded = None
  /\ UNCHANGED <<trigger, env, request, delivered>>

\* HTTPClient.SendMessage
Deliver ==
  /\ stage \in {"replying", "sending"} /\ forwarded # None
  /\ delivered' = NormalizeSendMessageRequest(forwarded)
  /\ stage' = IF stage = "replying" THEN "replied" ELSE "sent"
  /\ UNCHANGED <<trigger, env, request, forwarded>>

Next == Plan \/ CallReply \/ CallSend \/ Forward \/ Deliver
Spec == Init /\ [][Next]_vars

-----------------------------------------------------------------------------
Goes(platform, type, target) ==
  \A i \in DOMAIN delivered.messages :
    /\ delivered.messages[i].platform = platform
    /\ delivered.messages[i].message_type = type
    /\ delivered.messages[i].target_id = target

(* A reply goes back where the event came from: to its group if it has one,
   else privately to its sender, on its platform, in both formats of the
   request, unless captures or state set routing variables of their own. *)
ReplyReachesOrigin ==
  stage = "replied" /\ trigger.kind = "event"
    /\ DOMAIN trigger.captures \cap Variables \subseteq {"PLATFORM", "SESSION_ID", "USER_ID", "GROUP_ID"}
    /\ DOMAIN trigger.injected \cap Variables = {} =>
    LET in == trigger.in
        group == Or(in.group_id, in.current_group)
        user == Or(in.user_id, in.sender_qq)
        platform == Normalize(in).PLATFORM
    IN /\ group # Empty => Goes(platform, <<"group">>, group)
       /\ group = Empty /\ user # Empty => Goes(platform, <<"private">>, user)

(* The reply of a scheduled run goes to the target of its valid context, by
   its adapter, whatever the state of the action holds. *)
ScheduledReplyReachesTarget ==
  stage = "replied" /\ trigger.kind = "schedule" /\ trigger.delivery # None =>
    LET d == trigger.delivery
    IN /\ Goes(d.PLATFORM, d.MESSAGE_TYPE, d.TARGET_ID)
       /\ delivered.adapter_id = d.ADAPTER_ID

(* The client normalizes again what the runtime API normalized and checked:
   that changes nothing, so what was checked is what FrostAgent receives. *)
NormalizedTwiceIsOnce == delivered # None => delivered = forwarded
=============================================================================
