--------------------------- MODULE StreamReceiver ---------------------------
(***************************************************************************)
(* The stateless receiver StreamServer: packages/stream-receiver/src/      *)
(* index.ts.  Credentials carry the details of a connection sealed in a    *)
(* token, the last segment of their address; createReply has nothing but   *)
(* the packet to answer from.                                              *)
(*                                                                         *)
(* Encryption is abstract: a segment that is sealed is a token this server *)
(* made, and the request of a packet is readable with the secret derived   *)
(* from its token or not.                                                  *)
(***************************************************************************)
EXTENDS Ratios, Sequences

CONSTANT MaxTokenBytes  \* what the server's address leaves of an ILP address for a token

Flags == {"PAYMENT_TAG", "RECEIPTS", "ASSET_DETAILS"}

NoToken == [sealed |-> FALSE, flags |-> {}, fields |-> <<>>]

\* Node's ascii encoding of text, a sequence of code units: the lower byte of each is
\* written, and seven bits of it are read.
toAscii(text) == [i \in DOMAIN text |-> text[i] % 256]

fromAscii(bytes) == [i \in DOMAIN bytes |-> bytes[i] % 128]

\* Each option is undefined or given; receiptSetup.valid says whether its nonce and
\* secret have the right lengths, asset.valid whether its scale is a byte, and
\* asset.code is in UTF-8.  An empty payment tag is dropped.
hasTag(options) == options.paymentTag \notin {undefined, <<>>}

flagsOf(options) ==
    {flag \in Flags :
        \/ flag = "PAYMENT_TAG" /\ hasTag(options)
        \/ flag = "RECEIPTS" /\ options.receiptSetup # undefined
        \/ flag = "ASSET_DETAILS" /\ options.asset # undefined}

\* A VarOctetString of n bytes, the longest of which has a length of two bytes.
varOctets(n) == n + IF n < 128 THEN 1 ELSE IF n < 256 THEN 2 ELSE 3

tokenBytes(options) ==
    1 + (IF hasTag(options) THEN varOctets(Len(options.paymentTag)) ELSE 0)
      + (IF options.receiptSetup # undefined THEN 16 + 32 ELSE 0)
      + (IF options.asset # undefined THEN varOctets(Len(options.asset.code)) + 1 ELSE 0)

optional(field) == IF field = undefined THEN <<>> ELSE <<field>>

\* The token that generateCredentials puts in the address; NoToken where it throws.
generateCredentials(options) ==
    IF \/ options.receiptSetup # undefined /\ ~options.receiptSetup.valid
       \/ options.asset # undefined /\ ~options.asset.valid
       \/ tokenBytes(options) > MaxTokenBytes
    THEN NoToken
    ELSE [sealed |-> TRUE, flags |-> flagsOf(options),
          fields |-> (IF hasTag(options) THEN <<toAscii(options.paymentTag)>> ELSE <<>>)
                         \o optional(options.receiptSetup) \o optional(options.asset)]

\* The fields follow each other in the token: how many are before one says where it is.
decryptToken(token) ==
    LET has(flag) == flag \in token.flags
        tagged == IF has("PAYMENT_TAG") THEN 1 ELSE 0
        receipts == IF has("RECEIPTS") THEN 1 ELSE 0
        field(flag, i) == IF has(flag) THEN token.fields[i] ELSE undefined
    IN  IF ~token.sealed
        THEN undefined
        ELSE [paymentTag |-> IF has("PAYMENT_TAG") THEN fromAscii(token.fields[1]) ELSE undefined,
              receiptSetup |-> field("RECEIPTS", 1 + tagged),
              asset |-> field("ASSET_DETAILS", 1 + tagged + receipts)]

\* A packet's address is the server's own followed by segments, or another one.
extractLocalAddressSegment(destination) ==
    IF destination.ours /\ destination.segments # <<>>
    THEN destination.segments[1]
    ELSE undefined

\* ReplyBuilder.  A reply built before the encryption key is set has no STREAM data:
\* its amount and frames are undefined.
buildReject(code, amount, frames) ==
    [fulfill |-> FALSE, code |-> code, metadata |-> undefined,
     destinationAmount |-> amount, frames |-> frames]

buildFulfill(amount, frames) ==
    [fulfill |-> TRUE, code |-> "none", metadata |-> undefined,
     destinationAmount |-> amount, frames |-> frames]

\* The frame that tells a new client the asset.
assetFrames(prepare, details) ==
    IF "ConnectionNewAddress" \in prepare.frames /\ details.asset # undefined
    THEN {[type |-> "ConnectionAssetDetails", asset |-> details.asset]}
    ELSE {}

closeFrame == [type |-> "ConnectionClose"]

\* What the application may do with IncomingMoney: accept, temporaryDecline or
\* finalDecline, with a receipt if it sets the total received.
incomingMoney(prepare, frames) ==
    {buildFulfill(prepare.amount, frames),
     buildReject("T00", prepare.amount, frames),
     buildReject("F99", prepare.amount, frames \cup {closeFrame})}

withReceipt(replies, details) ==
    replies \cup
        IF details.receiptSetup = undefined THEN {}
        ELSE {[r EXCEPT !.frames = @ \cup {[type |-> "StreamReceipt"]}] : r \in replies}

\* The replies createReply leaves possible, its checks in the order of the code.
createReply(prepare) ==
    LET token == extractLocalAddressSegment(prepare.destination)
        details == decryptToken(token)
        frames == assetFrames(prepare, details)
    IN  IF token = undefined
        THEN {buildReject("F02", undefined, undefined)}
        ELSE IF details = undefined \/ ~prepare.readable
        THEN {buildReject("F06", undefined, undefined)}
        ELSE IF ~prepare.isRequest
        THEN {buildReject("F00", undefined, undefined)}
        ELSE IF "ConnectionClose" \in prepare.frames
        THEN {buildReject("F99", prepare.amount, {closeFrame})}
        ELSE IF prepare.amount < prepare.minimum \/ ~prepare.fulfillable
        THEN {buildReject("F99", prepare.amount, frames)}
        ELSE IF prepare.amount = 0
        THEN {buildFulfill(0, frames)}
        ELSE withReceipt(incomingMoney(prepare, frames), details)

=============================================================================
