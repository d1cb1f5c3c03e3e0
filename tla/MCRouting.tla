----------------------------- MODULE MCRouting ------------------------------
(* Values with and without colons, every field of an event present or not,  *)
(* valid and invalid delivery contexts, and requests with and without       *)
(* messages, sessions and routing fields.                                   *)
EXTENDS Routing, TLC

MCParts == STRING

MCIncoming ==
  [platform : {<<>>, <<"matrix">>}, session_id : {<<>>, <<"qq", "private", "u9">>},
   user_id : {<<>>, <<"u1">>, <<"@u", "host">>}, group_id : {<<>>, <<"g1">>, <<"!g", "host">>},
   sender_qq : {<<>>, <<"u2">>}, current_group : {<<>>, <<"g2">>}]

MCCaptures == {<<>>, "GROUP_ID" :> <<"g3">>, "OTHER" :> <<"x">>,
               "TARGET_ID" :> <<"t4">> @@ "MESSAGE_TYPE" :> <<"private">>}

MCInjections == {<<>>, "TARGET_ID" :> <<"t3">> @@ "MESSAGE_TYPE" :> <<"group">>,
                 "USER_ID" :> <<"u3">>}

MCMalformed == {<<"bad">>}

MCDeliveries ==
  [PLATFORM : {<<>>, <<"qq">>}, ADAPTER_ID : {<<>>, <<"astrbot">>, <<"bad">>},
   MESSAGE_TYPE : {<<"group">>, <<"private">>, <<"other">>},
   TARGET_ID : {<<>>, <<"t1">>, <<"!g", "host">>}, SESSION_ID : {<<"tg", "private", "s1">>},
   USER_ID : {<<>>, <<"t1">>, <<"u1">>}, GROUP_ID : {<<>>, <<"t1">>, <<"g1">>}]

MCMessages ==
  { <<>>, <<Plain(<<"hi">>)>>,
    <<[Message EXCEPT !.type = <<"image">>, !.url = <<"url">>],
      [Plain(<<"hi">>) EXCEPT !.target_id = <<"t2">>, !.message_type = <<"private">>]>>,
    <<[Message EXCEPT !.type = <<"file">>, !.url = <<"url">>, !.attachments = 2]>> }

MCBodies ==
  [platform : {<<>>, <<"qq">>}, message_type : {<<>>, <<"private">>},
   target_id : {<<>>, <<"t1">>}, session : {<<>>, <<"s1">>, <<"tg", "private", "!g", "host">>},
   adapter_id : {<<>>}, content : {<<>>, <<"hi">>}, text : {<<>>, <<"ho">>},
   attachments : {0, 1}, instance_id : {<<>>, <<"i1">>}, messages : MCMessages]
=============================================================================
