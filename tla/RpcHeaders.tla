----------------------------- MODULE RpcHeaders -----------------------------
(***************************************************************************)
(* The two headers of the RPC protocol as protobuf encodes them (src/      *)
(* rpc_proto/rpcheader.pb.cc and rpc_response_header.pb.cc).  A field that *)
(* has its default value is not written; one that is not read keeps its    *)
(* default.  A field is the unit in which messages are cut, for a field of *)
(* which only a part is there is not read, and the callers do not look at  *)
(* the result of the parser.  An encoding is given by where its fields     *)
(* end: the number of units up to and with each field, in their order.     *)
(***************************************************************************)
EXTENDS Integers

CONSTANTS
    Empty    \* the empty string

Success == 0
UnknownError == 1
InvalidRequest == 2

NoRequest == [service_name |-> Empty, method_name |-> Empty, args_size |-> 0]
NoResponse == [status |-> Success, message |-> Empty, args_size |-> 0]

(* What a field adds to the encoding. *)
Units(value, default) == IF value = default THEN 0 ELSE 1

SerializeRequest(h) ==
    LET service == Units(h.service_name, Empty)
        method == service + Units(h.method_name, Empty) IN
    [service_name |-> service, method_name |-> method,
     args_size |-> method + Units(h.args_size, 0)]

SerializeResponse(h) ==
    LET status == Units(h.status, Success)
        message == status + Units(h.message, Empty) IN
    [status |-> status, message |-> message,
     args_size |-> message + Units(h.args_size, 0)]

(* ByteSizeLong *)
RequestSize(h) == SerializeRequest(h).args_size
ResponseSize(h) == SerializeResponse(h).args_size

(* MergePartialFromCodedStream, of the first n units of the encoding of h. *)
ParseRequest(h, n) ==
    LET read(f) == IF SerializeRequest(h)[f] <= n THEN h[f] ELSE NoRequest[f] IN
    [service_name |-> read("service_name"), method_name |-> read("method_name"),
     args_size |-> read("args_size")]

ParseResponse(h, n) ==
    LET read(f) == IF SerializeResponse(h)[f] <= n THEN h[f]
                   ELSE NoResponse[f] IN
    [status |-> read("status"), message |-> read("message"),
     args_size |-> read("args_size")]
=============================================================================
