---------------------------- MODULE DecodeProofs ----------------------------
(***************************************************************************)
(* Proofs about Decode, for every request and every frame, whatever keys   *)
(* it has besides those the client knows.                                  *)
(***************************************************************************)
EXTENDS Decode, TLAPS

-----------------------------------------------------------------------------
(* What serde makes of a frame.                                            *)

(* A response has a variant, a success flag and an id or none.             *)
Decoded == [variant : Response \cup {"Undecodable"}, success : BOOLEAN, id : BOOLEAN]

(* A body that lacks a required field or has rows that cannot be named     *)
(* does not decode; otherwise it has its variant, its flag and its id.     *)
LEMMA BodyDecodes ==
  ASSUME NEW f \in Frame, NEW variant \in Response, NEW required \in SUBSET KnownKey
  PROVE  LET ok == /\ required \subseteq f.keys /\ f.success # "absent"
                   /\ variant = "QueryResult" => f.data # "bad"
         IN /\ body(f, variant, required) \in Decoded
            /\ ok => /\ body(f, variant, required).variant = variant
                     /\ body(f, variant, required).success = (f.success = "true")
                     /\ body(f, variant, required).id = TRUE
            /\ ~ok => body(f, variant, required) = Undecodable
  BY DEF body, Undecodable, Decoded

(* The variants that are read field by field always decode, with the id    *)
(* the frame has.                                                          *)
LEMMA LooseDecodes ==
  ASSUME NEW f \in Frame, NEW variant \in Response
  PROVE  /\ loose(f, variant) \in Decoded
         /\ loose(f, variant).variant = variant
         /\ loose(f, variant).success = (f.success # "false")
         /\ loose(f, variant).id = ("id" \in f.keys)
  BY DEF loose, Decoded

-----------------------------------------------------------------------------
(* What decode_value makes of a frame.                                     *)

(* Either nothing, or a response that has the frame's id or none.          *)
AnswerOf(r, f) ==
  /\ r \in Decoded
  /\ r = Undecodable \/ (r.variant \in Response /\ r.id = ("id" \in f.keys))

(* A body that requires the id.                                            *)
LEMMA BodyAnswers ==
  ASSUME NEW f \in Frame, NEW variant \in Response, NEW required \in SUBSET KnownKey,
         "id" \in required
  PROVE  AnswerOf(body(f, variant, required), f)
  BY BodyDecodes DEF AnswerOf

(* Field by field.                                                         *)
LEMMA LooseAnswers ==
  ASSUME NEW f \in Frame, NEW variant \in Response
  PROVE  AnswerOf(loose(f, variant), f)
  BY LooseDecodes DEF AnswerOf

(* A tagged frame of one of the thirteen types decodes as the body of that *)
(* type; any other does not.                                               *)
LEMMA TaggedAnswers ==
  ASSUME NEW f \in Frame
  PROVE  AnswerOf(decode_tagged(f), f)
  <1> DEFINE g == [f EXCEPT !.success = "true"]
             bare(variant, required) ==
               IF required \subseteq f.keys THEN loose(g, variant) ELSE Undecodable
  <1>1. g \in Frame /\ g.keys = f.keys
    BY DEF Frame
  <1>2. ASSUME NEW v \in Response, NEW required \in SUBSET KnownKey
        PROVE  AnswerOf(bare(v, required), f)
    <2>1. AnswerOf(loose(g, v), f)
      BY <1>1, LooseAnswers DEF AnswerOf
    <2>2. AnswerOf(Undecodable, f)
      BY DEF AnswerOf, Undecodable, Decoded
    <2> QED
      BY <2>1, <2>2
  <1>3. AnswerOf(Undecodable, f)
    BY DEF AnswerOf, Undecodable, Decoded
  <1> HIDE DEF g, bare
  <1>4. AnswerOf(bare("Connected", {"id", "job"}), f) /\ AnswerOf(bare("Pong", {"id"}), f)
          /\ AnswerOf(bare("Exited", {"id"}), f)
    BY <1>2 DEF Response, KnownKey
  <1>5. /\ AnswerOf(body(f, "QueryResult", {"id"}), f)
        /\ AnswerOf(body(f, "PreparedStatement", {"id", "cont_id"}), f)
        /\ AnswerOf(body(f, "SqlClosed", {"id"}), f)
        /\ AnswerOf(body(f, "ClResult", {"id", "messages"}), f)
        /\ AnswerOf(body(f, "Version", {"id", "version"}), f)
        /\ AnswerOf(body(f, "DbJob", {"id", "job"}), f)
        /\ AnswerOf(body(f, "ConfigSet", {"id"}), f)
        /\ AnswerOf(body(f, "TraceData", {"id"}), f)
        /\ AnswerOf(body(f, "DoveResult", {"id"}), f)
        /\ AnswerOf(body(f, "Error", {"id"}), f)
    BY BodyAnswers DEF Response, KnownKey
  <1> QED
    BY <1>3, <1>4, <1>5 DEF decode_tagged, g, bare

(* The same for every frame: the order of the tests in decode_value        *)
(* decides the variant, but none of them loses the id or invents one.      *)
LEMMA DecodedAnswers ==
  ASSUME NEW f \in Frame
  PROVE  AnswerOf(decode_value(f), f)
  <1>1. AnswerOf(Undecodable, f)
    BY DEF AnswerOf, Undecodable, Decoded
  <1>2. /\ AnswerOf(loose(f, "Connected"), f) /\ AnswerOf(loose(f, "Version"), f)
        /\ AnswerOf(loose(f, "TraceData"), f) /\ AnswerOf(loose(f, "Pong"), f)
    BY LooseAnswers DEF Response
  <1>3. /\ AnswerOf(body(f, "DoveResult", {"id"}), f)
        /\ AnswerOf(body(f, "QueryResult", {"id"}), f)
        /\ AnswerOf(body(f, "Error", {"id"}), f)
        /\ AnswerOf(body(f, "PreparedStatement", {"id"}), f)
    BY BodyAnswers DEF Response, KnownKey
  <1> QED
    BY <1>1, <1>2, <1>3, TaggedAnswers DEF decode_value
-----------------------------------------------------------------------------
(* The inductive invariant: each stage has the result of those before it.  *)

(* What the slot of `req' is handed for `f'.                               *)
Routed(req, f) ==
  LET d == decode_value(f)
  IN [variant |-> remap_response(pending_kind(req), d.variant), success |-> d.success,
      id |-> d.id]

DecodeInv ==
  /\ request \in Request /\ frame \in Frame
  /\ stage \in {"read", "decoded", "routed", "done"}
  /\ stage = "decoded" => response = decode_value(frame)
  /\ stage = "routed" => response = Routed(request, frame) /\ "id" \in frame.keys
  /\ stage # "done" => outcome = "none"
  /\ stage = "done" /\ "id" \in frame.keys => outcome = result_of(request, Routed(request, frame))
  /\ stage = "done" /\ "id" \notin frame.keys => outcome = "none"

(* Remapping makes a response of a response, and leaves what did not       *)
(* decode alone.                                                           *)
LEMMA Remaps ==
  ASSUME NEW kind, NEW v \in Response \cup {"Undecodable"}
  PROVE  /\ v \in Response => remap_response(kind, v) \in Response
         /\ v \notin {"Connected", "Pong"} => remap_response(kind, v) = v
  <1>1. CASE v = "Connected"
    BY <1>1 DEF remap_response, Response
  <1>2. CASE v = "Pong"
    BY <1>2 DEF remap_response, Response
  <1>3. CASE v \notin {"Connected", "Pong"}
    BY <1>3 DEF remap_response, Response
  <1> QED
    BY <1>1, <1>2, <1>3

(* A frame that does not decode reaches the slot as that.                  *)
LEMMA RoutedUndecodable ==
  ASSUME NEW req \in Request, NEW f \in Frame
  PROVE  /\ decode_value(f) = Undecodable => Routed(req, f) = Undecodable
         /\ decode_value(f) # Undecodable =>
              Routed(req, f) # Undecodable /\ Routed(req, f).variant \in Response
  <1>1. AnswerOf(decode_value(f), f)
    BY DecodedAnswers
  <1>2. CASE decode_value(f) = Undecodable
    <2>1. remap_response(pending_kind(req), "Undecodable") = "Undecodable"
      BY Remaps
    <2>2. Undecodable.variant = "Undecodable"
      BY DEF Undecodable
    <2>3. Routed(req, f) = [variant |-> "Undecodable", success |-> Undecodable.success,
                            id |-> Undecodable.id]
      BY <1>2, <2>1, <2>2 DEF Routed
    <2>4. Undecodable.success = FALSE /\ Undecodable.id = FALSE
      BY DEF Undecodable
    <2>5. Routed(req, f) = Undecodable
      BY <2>3, <2>4 DEF Undecodable
    <2> QED
      BY <1>2, <2>5
  <1>3. CASE decode_value(f) # Undecodable
    <2>1. decode_value(f).variant \in Response
      BY <1>1, <1>3 DEF AnswerOf
    <2>2. Routed(req, f).variant \in Response
      BY <2>1, Remaps DEF Routed
    <2>3. Undecodable.variant \notin Response
      BY DEF Undecodable, Response
    <2> QED
      BY <1>3, <2>2, <2>3
  <1> QED
    BY <1>2, <1>3

(* DecodeInv holds initially and survives every step.                      *)
LEMMA DecodeInvariant == Spec => []DecodeInv
  <1>1. Init => DecodeInv
    BY DEF Init, DecodeInv, Frame
  <1>2. DecodeInv /\ [Next]_vars => DecodeInv'
    <2> SUFFICES ASSUME DecodeInv, [Next]_vars PROVE DecodeInv'
      OBVIOUS
    <2>1. AnswerOf(decode_value(frame), frame)
      BY DecodedAnswers DEF DecodeInv
    <2>2. CASE Deserialize
      BY <2>2 DEF Deserialize, DecodeInv
    <2>3. CASE Route
      <3>1. stage = "decoded" /\ response = decode_value(frame) /\ outcome = "none"
              /\ request \in Request /\ frame \in Frame
              /\ request' = request /\ frame' = frame /\ outcome' = outcome
        BY <2>3 DEF Route, DecodeInv
      <3>2. CASE response.id
        <4>1. stage' = "routed" /\ response' = [response EXCEPT !.variant =
                            remap_response(pending_kind(request), response.variant)]
          BY <2>3, <3>2 DEF Route
        <4>2. ~Undecodable.id
          BY DEF Undecodable
        <4>3. "id" \in frame.keys
          BY <2>1, <3>1, <3>2, <4>2 DEF AnswerOf
        <4>4. response \in Decoded
          BY <2>1, <3>1 DEF AnswerOf
        <4>5. response' = Routed(request, frame)
          BY <4>1, <4>4, <3>1 DEF Routed, Decoded
        <4> QED
          BY <3>1, <4>1, <4>3, <4>5 DEF DecodeInv
      <3>3. CASE ~response.id /\ response = Undecodable /\ "id" \in frame.keys
        <4>1. stage' = "routed" /\ response' = response
          BY <2>3, <3>3 DEF Route
        <4>2. response' = Routed(request, frame)
          BY <4>1, <3>1, <3>3, RoutedUndecodable
        <4> QED
          BY <3>1, <3>3, <4>1, <4>2 DEF DecodeInv
      <3>4. CASE ~response.id /\ ~(response = Undecodable /\ "id" \in frame.keys)
        <4>1. stage' = "done"
          BY <2>3, <3>4 DEF Route
        <4>2. "id" \notin frame.keys
          BY <2>1, <3>1, <3>4 DEF AnswerOf
        <4> QED
          BY <3>1, <4>1, <4>2 DEF DecodeInv
      <3> QED
        BY <3>2, <3>3, <3>4
    <2>4. CASE Match
      BY <2>4 DEF Match, DecodeInv
    <2>5. CASE UNCHANGED vars
      BY <2>5 DEF vars, DecodeInv
    <2> QED
      BY <2>2, <2>3, <2>4, <2>5 DEF Next
  <1> QED
    BY <1>1, <1>2, PTL DEF Spec
-----------------------------------------------------------------------------
(* What the methods make of it.                                            *)

(* A method that was handed something always has a result.                 *)
LEMMA ResultKnown ==
  \A req, r : result_of(req, r) \in {"Ignored", "Protocol", "Auth", "Server", "Ok"}
  BY DEF result_of

(* An object that names the outstanding request settles it, whatever else  *)
(* it has or lacks; one that names no request settles nothing.             *)
THEOREM OwnFrame == Spec => []OwnFrameSettles
  <1>1. DecodeInv => OwnFrameSettles
    <2>1. result_of(request, Routed(request, frame)) # "none"
      BY ResultKnown
    <2> QED
      BY <2>1 DEF DecodeInv, OwnFrameSettles, Settled
  <1> QED
    BY <1>1, DecodeInvariant, PTL

(* The variant and the flag decide the result.                             *)
LEMMA OkWhenAccepted ==
  ASSUME NEW req \in Request, NEW f \in Frame, NEW v \in Response,
         decode_value(f).variant = v,
         remap_response(pending_kind(req), v) \in accepted(req) \ {"Error"},
         req \in checks_success => decode_value(f).success
  PROVE  result_of(req, Routed(req, f)) \in {"Ok", "Ignored"}
  <1>1. decode_value(f) # Undecodable
    BY DEF Undecodable, Response
  <1>2. Routed(req, f) # Undecodable
    BY <1>1, RoutedUndecodable
  <1>3. Routed(req, f).variant = remap_response(pending_kind(req), v)
    BY DEF Routed
  <1>4. req \in checks_success => Routed(req, f).success
    BY DEF Routed
  <1> QED
    BY <1>2, <1>3, <1>4 DEF result_of

(* A successful answer of a live daemon is decoded as the variant that the *)
(* method waits for, or as the acknowledgement that is remapped to it.     *)
LEMMA LiveAnswerOk ==
  ASSUME NEW req \in Request, NEW f \in Frame, live_answer(req, f)
  PROVE  result_of(req, Routed(req, f)) \in {"Ok", "Ignored"}
  <1> DEFINE result == f.data # "absent" \/ "has_results" \in f.keys
             only(ks) == f.keys \subseteq ks \cup OtherKey
  <1>1. /\ f.type = "none" /\ "id" \in f.keys /\ f.data # "bad"
        /\ f.success = "true" \/ (req = "Cl" /\ f.success = "false")
    BY DEF live_answer
  <1>2. \A ks \in SUBSET KnownKey, k \in KnownKey : only(ks) /\ k \notin ks => k \notin f.keys
    BY KeysAssumption
  <1>3. \A v \in Response : LET b == body(f, v, {"id"}) IN
          b.variant = v /\ b.success = (f.success = "true")
    <2> TAKE v \in Response
    <2>1. {"id"} \in SUBSET KnownKey /\ {"id"} \subseteq f.keys /\ f.success # "absent"
      BY <1>1 DEF KnownKey
    <2>2. v = "QueryResult" => f.data # "bad" BY <1>1
    <2> QED
      BY <2>1, <2>2, BodyDecodes
  <1>4. \A v \in Response : LET l == loose(f, v) IN
          l.variant = v /\ l.success = (f.success # "false")
    BY LooseDecodes
  <1>5. CASE req \in {"Sql", "PrepareSqlExecute", "Execute", "SqlMore", "Cl"}
    <2>1. result /\ only({"id", "has_results", "cont_id", "job"})
      BY <1>5 DEF live_answer
    <2>2. "dove" \notin f.keys
      BY <1>2, <2>1 DEF KnownKey
    <2>3. decode_value(f) = body(f, "QueryResult", {"id"})
      BY <1>1, <2>1, <2>2 DEF decode_value
    <2>4. decode_value(f).variant = "QueryResult"
      BY <1>3, <2>3 DEF Response
    <2>5. remap_response(pending_kind(req), "QueryResult") = "QueryResult"
      BY Remaps DEF Response
    <2>6. "QueryResult" \in accepted(req) \ {"Error"}
      BY <1>5 DEF accepted
    <2>7. req \notin checks_success
      BY <1>5 DEF checks_success
    <2> QED
      BY <2>4, <2>5, <2>6, <2>7, OkWhenAccepted DEF Response
  <1>6. CASE req = "Dove"
    <2>1. "dove" \in f.keys /\ only({"id", "dove", "has_results"})
      BY <1>6 DEF live_answer
    <2>2. "cont_id" \notin f.keys
      BY <1>2, <2>1 DEF KnownKey
    <2>3. decode_value(f) = body(f, "DoveResult", {"id"})
      BY <1>1, <1>6, <2>1, <2>2 DEF decode_value
    <2>4. decode_value(f).variant = "DoveResult" /\ decode_value(f).success
      BY <1>1, <1>3, <1>6, <2>3 DEF Response
    <2>5. remap_response(pending_kind(req), "DoveResult") \in accepted(req) \ {"Error"}
      BY <1>6 DEF remap_response, pending_kind, PendingKind, accepted
    <2> QED
      BY <2>4, <2>5, OkWhenAccepted DEF Response
  <1>7. CASE req = "PrepareSql"
    <2>1. ~result /\ only({"id", "cont_id"})
      BY <1>7 DEF live_answer
    <2>2. "dove" \notin f.keys /\ "job" \notin f.keys /\ "version" \notin f.keys
            /\ "trace" \notin f.keys
      BY <1>2, <2>1 DEF KnownKey
    <2>3. \/ decode_value(f) = body(f, "PreparedStatement", {"id"})
          \/ decode_value(f) = loose(f, "Pong")
      BY <1>1, <1>7, <2>1, <2>2 DEF decode_value
    <2>4. \E v \in {"PreparedStatement", "Pong"} : decode_value(f).variant = v
      BY <1>3, <1>4, <2>3 DEF Response
    <2>5. \A v \in {"PreparedStatement", "Pong"} :
            remap_response(pending_kind(req), v) \in accepted(req) \ {"Error"}
      BY <1>7 DEF remap_response, pending_kind, PendingKind, accepted
    <2>6. req \notin checks_success
      BY <1>7 DEF checks_success
    <2> QED
      BY <2>4, <2>5, <2>6, OkWhenAccepted DEF Response
  <1>8. CASE req \in {"Connect", "GetDbJob"}
    <2>1. ~result /\ "job" \in f.keys /\ only({"id", "job", "version"})
      BY <1>8 DEF live_answer
    <2>2. "dove" \notin f.keys /\ "cont_id" \notin f.keys
      BY <1>2, <2>1 DEF KnownKey
    <2>3. decode_value(f) = loose(f, "Connected")
      BY <1>1, <1>8, <2>1, <2>2 DEF decode_value
    <2>4. decode_value(f).variant = "Connected" /\ decode_value(f).success
      BY <1>1, <1>4, <1>8, <2>3 DEF Response
    <2>5. remap_response(pending_kind(req), "Connected") \in accepted(req) \ {"Error"}
      BY <1>8 DEF remap_response, pending_kind, PendingKind, accepted
    <2> QED
      BY <2>4, <2>5, OkWhenAccepted DEF Response
  <1>9. CASE req = "GetVersion"
    <2>1. ~result /\ "version" \in f.keys /\ only({"id", "version"})
      BY <1>9 DEF live_answer
    <2>2. "dove" \notin f.keys /\ "cont_id" \notin f.keys /\ "job" \notin f.keys
      BY <1>2, <2>1 DEF KnownKey
    <2>3. decode_value(f) = loose(f, "Version")
      BY <1>1, <1>9, <2>1, <2>2 DEF decode_value
    <2>4. decode_value(f).variant = "Version" /\ decode_value(f).success
      BY <1>1, <1>4, <1>9, <2>3 DEF Response
    <2>5. remap_response(pending_kind(req), "Version") \in accepted(req) \ {"Error"}
      BY <1>9 DEF remap_response, pending_kind, PendingKind, accepted
    <2> QED
      BY <2>4, <2>5, OkWhenAccepted DEF Response
  <1>10. CASE req = "GetTraceData"
    <2>1. ~result /\ only({"id", "trace"})
      BY <1>10 DEF live_answer
    <2>2. "dove" \notin f.keys /\ "cont_id" \notin f.keys /\ "job" \notin f.keys
            /\ "version" \notin f.keys
      BY <1>2, <2>1 DEF KnownKey
    <2>3. decode_value(f) = loose(f, "TraceData") \/ decode_value(f) = loose(f, "Pong")
      BY <1>1, <1>10, <2>1, <2>2 DEF decode_value
    <2>4. (\E v \in {"TraceData", "Pong"} : decode_value(f).variant = v) /\ decode_value(f).success
      BY <1>1, <1>4, <1>10, <2>3 DEF Response
    <2>5. \A v \in {"TraceData", "Pong"} :
            remap_response(pending_kind(req), v) \in accepted(req) \ {"Error"}
      BY <1>10 DEF remap_response, pending_kind, PendingKind, accepted
    <2> QED
      BY <2>4, <2>5, OkWhenAccepted DEF Response
  <1>11. CASE req \in {"SetConfig", "Ping"}
    <2>1. ~result /\ only({"id"})
      BY <1>11 DEF live_answer
    <2>2. "dove" \notin f.keys /\ "cont_id" \notin f.keys /\ "job" \notin f.keys
            /\ "version" \notin f.keys /\ "trace" \notin f.keys
      BY <1>2, <2>1 DEF KnownKey
    <2>3. decode_value(f) = loose(f, "Pong")
      BY <1>1, <1>11, <2>1, <2>2 DEF decode_value
    <2>4. decode_value(f).variant = "Pong" /\ decode_value(f).success
      BY <1>1, <1>4, <1>11, <2>3 DEF Response
    <2>5. remap_response(pending_kind(req), "Pong") \in accepted(req) \ {"Error"}
      BY <1>11 DEF remap_response, pending_kind, PendingKind, accepted
    <2> QED
      BY <2>4, <2>5, OkWhenAccepted DEF Response
  <1>12. CASE req \in fire_and_forget
    BY <1>12 DEF result_of
  <1> QED
    BY <1>5, <1>6, <1>7, <1>8, <1>9, <1>10, <1>11, <1>12 DEF Request, fire_and_forget
(* Every success answer of a live daemon is understood by the method that  *)
(* sent the request, whatever keys it has that the client does not know.   *)
THEOREM LiveAnswers == Spec => []LiveAnswersUsable
  <1>1. DecodeInv => LiveAnswersUsable
    <2> SUFFICES ASSUME DecodeInv, stage = "done", live_answer(request, frame)
                 PROVE  outcome \in {"Ok", "Ignored"}
      BY DEF LiveAnswersUsable
    <2>1. "id" \in frame.keys
      BY DEF live_answer
    <2>2. outcome = result_of(request, Routed(request, frame))
      BY <2>1 DEF DecodeInv
    <2> QED
      BY <2>2, LiveAnswerOk DEF DecodeInv
  <1> QED
    BY <1>1, DecodeInvariant, PTL

(* A failure with no rows and no explain tree, untagged or of type error,  *)
(* decodes as an Error or not at all.                                      *)
LEMMA BareFailureDecodes ==
  ASSUME NEW f \in Frame, f.success = "false", f.data = "absent",
         f.type \in {"none", "error"}, f.keys \cap {"has_results", "dove"} = {}
  PROVE  decode_value(f) = Undecodable \/ decode_value(f).variant = "Error"
  <1>1. decode_value(f) = body(f, "Error", {"id"})
    BY DEF decode_value, decode_tagged
  <1> QED
    BY <1>1 DEF body

(* No method takes such a failure for a success.                           *)
THEOREM BareFailures == Spec => []BareFailureNeverOk
  <1>1. DecodeInv => BareFailureNeverOk
    <2> SUFFICES ASSUME DecodeInv, stage = "done", BareFailure
                 PROVE  outcome # "Ok"
      BY DEF BareFailureNeverOk
    <2>1. request \in Request /\ frame \in Frame
      BY DEF DecodeInv
    <2>2. decode_value(frame) = Undecodable \/ decode_value(frame).variant = "Error"
      BY <2>1, BareFailureDecodes DEF BareFailure
    <2>3. CASE decode_value(frame) = Undecodable
      <3>1. result_of(request, Routed(request, frame)) # "Ok"
        BY <2>1, <2>3, RoutedUndecodable DEF result_of
      <3> QED
        BY <3>1 DEF DecodeInv
    <2>4. CASE decode_value(frame).variant = "Error"
      <3>1. remap_response(pending_kind(request), "Error") = "Error"
        BY Remaps DEF Response
      <3>2. Routed(request, frame).variant = "Error"
        BY <2>4, <3>1 DEF Routed
      <3>3. result_of(request, Routed(request, frame)) # "Ok"
        BY <3>2 DEF result_of
      <3> QED
        BY <3>3 DEF DecodeInv
    <2> QED
      BY <2>2, <2>3, <2>4
  <1> QED
    BY <1>1, DecodeInvariant, PTL

(* A CL command that failed keeps its job log: with rows or has_results it *)
(* is Ok with success = false, and only a bare failure is Error::Server.   *)
THEOREM JobLog == Spec => []JobLogKept
  <1>1. DecodeInv => JobLogKept
    <2> DEFINE rows == frame.data = "good" \/ "has_results" \in frame.keys
               v == IF rows THEN "QueryResult" ELSE "Error"
    <2> SUFFICES ASSUME DecodeInv, Settled, request = "Cl", frame.type = "none",
                        frame.success = "false", frame.data # "bad", "dove" \notin frame.keys
                 PROVE  outcome = IF rows THEN "Ok" ELSE "Server"
      BY DEF JobLogKept
    <2>1. /\ frame \in Frame /\ "id" \in frame.keys
          /\ outcome = result_of("Cl", Routed("Cl", frame))
      BY DEF DecodeInv, Settled
    <2>2. decode_value(frame) = body(frame, v, {"id"})
      BY <2>1 DEF decode_value, Frame
    <2>3. v \in Response
      BY DEF Response
    <2>4. decode_value(frame).variant = v
      BY <2>1, <2>2 DEF body
    <2>5. remap_response(pending_kind("Cl"), v) = v
      BY <2>3, Remaps
    <2>6. Routed("Cl", frame).variant = v
      BY <2>4, <2>5 DEF Routed
    <2>7. Routed("Cl", frame) # Undecodable
      BY <2>3, <2>6 DEF Undecodable, Response
    <2>8. /\ "Cl" \notin fire_and_forget /\ "Cl" \notin checks_success
          /\ v \in accepted("Cl")
      BY DEF fire_and_forget, checks_success, accepted
    <2> QED
      BY <2>1, <2>6, <2>7, <2>8 DEF result_of
  <1> QED
    BY <1>1, DecodeInvariant, PTL
=============================================================================
