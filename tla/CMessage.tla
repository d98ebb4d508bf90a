------------------------------ MODULE CMessage ------------------------------
(***************************************************************************)
(* Message passing (--message): ipc_receivefile attaches a name, and       *)
(* ipc_sendfile sends each piece of its file in a message that blocks it   *)
(* until the receiver has replied.  The kernel removes the name of a       *)
(* receiver that ends, and tells a receiver when its client is gone.       *)
(***************************************************************************)
EXTENDS CProgram

VARIABLE connected   (* has ipc_sendfile opened the name?                   *)

messageVars == <<connected>>
MessageInit == connected = FALSE
Attached == rpc \in {"open", "receive", "read", "write", "reply"}

(* int bytesRemaining = file_size                                          *)
AsInt(n) ==
  LET m == n % (2 * IntHalf) IN IF m < IntHalf THEN m ELSE m - 2 * IntHalf

MessageFind == FindSize("locate") /\ UNCHANGED connected

(* name_open() is tried until it succeeds.                                 *)
MessageLocate ==
  /\ spc = "locate" /\ Attached
  /\ connected' = TRUE
  /\ SGoto("read") /\ UNCHANGED senderData

MessageReadFile ==
  /\ spc = "read"
  /\ UNCHANGED connected
  /\ \/ AsInt(measured) > sent /\ Read(BufferSize) /\ SGoto("send")
     \/ AsInt(measured) <= sent /\ SExit("success") /\ UNCHANGED senderData
     \/ Fails /\ SExit("failure") /\ UNCHANGED senderData

(* MsgSendvs fails when the receiver is gone, also while it blocks.        *)
MessageSend ==
  /\ spc = "send" /\ Attached
  /\ SGoto("blocked") /\ UNCHANGED <<connected, senderData>>
MessageSendUnchecked ==
  /\ spc \in {"send", "blocked"} /\ (~Attached \/ Fails)
  /\ sent' = sent + last
  /\ SGoto("read") /\ UNCHANGED <<connected, measured, last>>
MessageSendFails ==
  /\ spc \in {"send", "blocked"} /\ (~Attached \/ Fails)
  /\ SExit("failure") /\ UNCHANGED <<connected, senderData>>

MessageSender ==
  MessageFind \/ MessageLocate \/ MessageReadFile \/ MessageSend \/ MessageSendFails

MessageAttach ==
  /\ rpc = "idle"
  /\ UNCHANGED <<connected, receiverData>>
  /\ RGoto("open") \/ (Fails /\ RExit("failure"))

MessageOpenFile ==
  /\ rpc = "open"
  /\ UNCHANGED <<connected, receiverData>>
  /\ RGoto("receive") \/ (Fails /\ RExit("failure"))

MessageReceive ==
  /\ rpc = "receive" /\ spc = "blocked"
  /\ UNCHANGED <<connected, receiverData>>
  /\ RGoto("read") \/ (Fails /\ RExit("failure"))

(* MsgRead and MsgReply need a client that still waits.                    *)
MessageRead ==
  /\ rpc = "read"
  /\ UNCHANGED <<connected, receiverData>>
  /\ IF spc = "blocked" THEN RGoto("write") ELSE RExit("failure")

MessageWrite ==
  /\ rpc = "write"
  /\ Write(Stretch(sent, last))
  /\ RGoto("reply") /\ UNCHANGED connected

MessageReply ==
  /\ rpc = "reply"
  /\ UNCHANGED connected
  /\ \/ /\ spc = "blocked"
        /\ rpc' = "receive" /\ spc' = "read" /\ sent' = sent + last
        /\ UNCHANGED <<method, calm, sres, rres, size, measured, last, receiverData>>
     \/ spc # "blocked" /\ RExit("failure") /\ UNCHANGED receiverData

(* The pulse of a client that is gone ends the copy, whatever it sent.     *)
MessageDisconnected ==
  /\ rpc = "receive" /\ connected /\ spc = "ended"
  /\ UNCHANGED <<connected, out>>
  /\ \/ RExit("success") /\ UNCHANGED lost
     \/ Fails /\ RExit("failure") /\ lost' = TRUE

MessageReceiver ==
  \/ MessageAttach \/ MessageOpenFile \/ MessageReceive \/ MessageRead
  \/ MessageWrite \/ MessageReply \/ MessageDisconnected
=============================================================================
