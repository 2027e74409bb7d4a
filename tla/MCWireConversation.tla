------------------------- MODULE MCWireConversation -------------------------
EXTENDS WireConversation

CONSTANTS reader, writer

MCMethod == [c \in Callers |-> IF c = reader THEN "thread/list" ELSE "model/list"]

Error(code, message, data) == [code |-> code, message |-> message, data |-> data]
Overload == Error(-32001, {}, FALSE)
Hidden == Error(-32050, {"overload"}, FALSE)
Budget == Error(-32050, {"retry limit"}, TRUE)
Uninitialised == Error(-32001, {"not initialized"}, FALSE)
Outside == Error(-32100, {"overload"}, TRUE)

Listing(saveAs) == ExpectRequest("thread/list", Anything, Anything, saveAs)
Models == ExpectRequest("model/list", Anything, None, None)
Approval == "item/fileChange/requestApproval"
Accept == Decide("accept")
Grant == GrantPermissions("all", "turn")

MCDecisions == {Accept, Grant, None, Junk}

MCScripts == {
    \* an overload, then a result for the next attempt, while another caller is served
    <<Listing("a"), SendResponse(None, "error", Overload), Models,
      SendResponse(None, "result", "models"), Listing(None), SendResponse(None, "result", "b")>>,
    \* overloads in different words until the attempts are used up, the first twice
    <<Listing("a"), SendResponse("a", "error", Hidden), SendResponse("a", "error", Overload),
      Listing("b"), SendResponse("b", "error", Overload), SendNotification("warning", 3),
      CloseWith(0)>>,
    \* errors that must not be retried
    <<Listing(None), SendResponse(None, "error", Budget), Models,
      SendResponse(None, "error", Uninitialised)>>,
    <<Models, SendResponse(None, "error", Outside), Listing(None),
      SendResponse("last_client_request", "result", "c"), CloseWith(3)>>,
    \* an approval between a request and its answer
    <<Listing(None), SendServerRequest(<<"str", "s">>, Approval, "change", None),
      ExpectResponse("s", AsWireResult(Accept)), SendResponse(None, "result", "d")>>,
    <<SendServerRequest(<<"str", "s">>, Approval, Junk, "ask"), ExpectResponse(None, Anything),
      SendServerRequest(<<"str", "t">>, "other", None, None), ExpectResponse("t", Anything)>>,
    \* lines near the limit of frames, and what is no envelope
    <<SendNotification("warning", 3), SendNotification("warning", 4),
      SendNotification("warning", 5), EmitRaw(Junk, 0)>>,
    <<SendNotification("warning", 7), SendNotification("warning", 8), CloseWith(0)>>,
    <<Models, EmitRaw([id |-> <<"int", 1>>, result |-> "e", error |-> Overload], 2),
      SendResponse(None, "result", "e")>>,
    <<EmitRaw([jsonrpc |-> "2.0", id |-> <<"int", 7>>, result |-> "e"], 2),
      ExpectNotification("initialized", Anything)>>,
    <<ExpectNotification("initialized", Anything)>>,
    \* a result of the wrong shape after an overload
    <<Listing(None), SendResponse(None, "error", Overload), Listing(None),
      SendResponse(None, "result", Junk)>> }
=============================================================================
