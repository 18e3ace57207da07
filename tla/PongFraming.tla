---------------------------- MODULE PongFraming ----------------------------
(***************************************************************************)
(* The length-prefixed framing xcmpong puts on byte-stream transports      *)
(* (src/tools/xcmpong.c: bsend, receive_chunk, breceive).  One sender      *)
(* sends the messages Msgs in order with bsend; one receiver calls        *)
(* breceive with a fixed capacity until it returns 0 or -1.  Between them *)
(* the transport is a byte stream that holds at most StreamCap bytes and  *)
(* accepts and returns any non-empty part of what is asked: xcm_send and  *)
(* xcm_receive may transfer fewer bytes than requested.  A call that      *)
(* would return EAGAIN is the caller waiting: no step.  The sender may    *)
(* close at any time (it finished, bsend failed and the caller died, or   *)
(* it was killed); the receiver then drains the stream and reads 0.       *)
(***************************************************************************)
EXTENDS Naturals, Sequences, SequencesExt

CONSTANTS Msgs,       \* the messages the sender sends, in order
          Bytes,      \* payload byte values
          Capacity,   \* breceive's capacity argument
          StreamCap,  \* bytes the transport buffers
          NoMsg

\* sizeof(uint32_t): the length prefix is a 32-bit big-endian integer.
HdrLen == 4
ByteVals == 0..255

ASSUME /\ Msgs \in Seq(Seq(Bytes) \ {<<>>})
       /\ Bytes \subseteq ByteVals
       /\ StreamCap \in Nat \ {0}

VARIABLES stream,     \* the bytes in the transport, oldest first
          closed,     \* the sender has closed its end
          sidx,       \* index in Msgs of the message bsend is sending
          sent,       \* bsend's sent: bytes of the current frame written
          rpc,        \* where the receiver is: "call", "hdr", "body", "done"
          nlen,       \* breceive's nlen: header bytes read so far
          len,        \* breceive's len: the decoded message length
          chunk,      \* the message bytes read so far into msg
          delivered,  \* the messages breceive has returned, in order
          status      \* "open", or "eof" (returned 0) / "emsgsize" (-1)

vars == <<stream, closed, sidx, sent, rpc, nlen, len, chunk, delivered,
          status>>

(***************************************************************************)
(* htobe32 and be32toh: the length as HdrLen bytes, most significant      *)
(* first.  Taking every byte modulo 256 drops what lies above 2^32, as    *)
(* the conversion to uint32_t does.                                        *)
(***************************************************************************)
htobe32(n) == [k \in 1..HdrLen |-> (n \div 256^(HdrLen - k)) % 256]

be32toh_le(bs) == FoldRight(LAMBDA b, acc : acc * 256 + b, bs, 0)

be32toh(bs) == FoldLeft(LAMBDA acc, b : acc * 256 + b, 0, bs)

\* bsend's buf: the length prefix followed by the message.
Frame(m) == htobe32(Len(m)) \o m

Space == StreamCap - Len(stream)

TypeOK == /\ stream \in Seq(ByteVals) /\ Len(stream) <= StreamCap
          /\ closed \in BOOLEAN
          /\ sidx \in 1..Len(Msgs) + 1
          /\ sent \in 0..(IF sidx <= Len(Msgs)
                            THEN Len(Frame(Msgs[sidx])) - 1 ELSE 0)
          /\ rpc \in {"call", "hdr", "body", "done"}
          /\ nlen \in Seq(ByteVals) /\ Len(nlen) <= HdrLen
          /\ len \in 0..Capacity /\ chunk \in Seq(Bytes)
          /\ status \in {"open", "eof", "emsgsize"}

Init == /\ stream = <<>>
        /\ closed = FALSE
        /\ sidx = 1
        /\ sent = 0
        /\ rpc = "call"
        /\ nlen = <<>>
        /\ len = 0
        /\ chunk = <<>>
        /\ delivered = <<>>
        /\ status = "open"

(***************************************************************************)
(* One xcm_send of bsend's loop: rc > 0 bytes of what is left of the      *)
(* frame go into the stream; once the whole frame is written bsend        *)
(* returns 0 and the caller goes on with the next message.  With no       *)
(* space xcm_send fails with EAGAIN and bsend waits: no step.             *)
(***************************************************************************)
bsend ==
    /\ ~closed /\ sidx <= Len(Msgs)
    /\ LET buf == Frame(Msgs[sidx])
           left == Len(buf) - sent
       IN \E rc \in 1..Min({left, Space}) :
            /\ stream' = stream \o SubSeq(buf, sent + 1, sent + rc)
            /\ IF sent + rc = Len(buf)
                 THEN sidx' = sidx + 1 /\ sent' = 0
                 ELSE sidx' = sidx /\ sent' = sent + rc
    /\ UNCHANGED <<closed, rpc, nlen, len, chunk, delivered, status>>

\* The sender's connection is closed: it is done, or bsend returned -1 and
\* the caller called ut_die, or it was killed; possibly within a frame.
Close == /\ ~closed
         /\ closed' = TRUE
         /\ UNCHANGED <<stream, sidx, sent, rpc, nlen, len, chunk,
                        delivered, status>>

(***************************************************************************)
(* The receiver.  xcm_receive on the drained stream of a closed           *)
(* connection returns 0; on an empty open one it fails with EAGAIN (no    *)
(* step).  Otherwise it returns rc bytes, 1 <= rc <= what was asked.      *)
(***************************************************************************)
Eof == Len(stream) = 0 /\ closed

Take(rc) == SubSeq(stream, 1, rc)

Drop(rc) == SubSeq(stream, rc + 1, Len(stream))

\* rc == 0: breceive returns 0 to its caller, which stops.
Returns0 == /\ rpc' = "done" /\ status' = "eof"
            /\ UNCHANGED <<stream, nlen, len, chunk, delivered>>

\* The header is complete: decode it and check it against the capacity
\* (EMSGSIZE, and the caller stops), then receive_chunk for the message.
HeaderDone(hdr) ==
    LET l == be32toh(hdr) IN
    /\ nlen' = hdr
    /\ IF l > Capacity
         THEN rpc' = "done" /\ status' = "emsgsize"
              /\ UNCHANGED <<len, chunk, delivered>>
         ELSE rpc' = "body" /\ len' = l /\ chunk' = <<>>
              /\ UNCHANGED <<delivered, status>>

\* breceive's first xcm_receive, of sizeof(nlen) bytes.
breceive_overread ==
    /\ rpc = "call"
    /\ \/ Eof /\ Returns0
       \/ \E rc \in 1..Min({HdrLen + 1, Len(stream)}) :
            /\ stream' = Drop(rc)
            /\ IF rc < HdrLen
                 THEN rpc' = "hdr" /\ nlen' = Take(rc)
                      /\ UNCHANGED <<len, chunk, delivered, status>>
                 ELSE HeaderDone(Take(rc))
    /\ UNCHANGED <<closed, sidx, sent>>

breceive ==
    /\ rpc = "call"
    /\ \/ Eof /\ Returns0
       \/ \E rc \in 1..Min({HdrLen, Len(stream)}) :
            /\ stream' = Drop(rc)
            /\ IF rc < HdrLen
                 THEN rpc' = "hdr" /\ nlen' = Take(rc)
                      /\ UNCHANGED <<len, chunk, delivered, status>>
                 ELSE HeaderDone(Take(rc))
    /\ UNCHANGED <<closed, sidx, sent>>

(***************************************************************************)
(* One xcm_receive of receive_chunk's loop, for the rest of the header    *)
(* (at &nlen + rc) or for the message; rc == 0 ends breceive with 0.      *)
(***************************************************************************)
Wanted == IF rpc = "hdr" THEN HdrLen - Len(nlen) ELSE len - Len(chunk)

ChunkRead(rc) ==
    IF rpc = "hdr"
      THEN IF rc = Wanted THEN HeaderDone(nlen \o Take(rc))
           ELSE nlen' = nlen \o Take(rc)
                /\ UNCHANGED <<rpc, len, chunk, delivered, status>>
      ELSE IF rc = Wanted
             THEN /\ delivered' = Append(delivered, chunk \o Take(rc))
                  /\ rpc' = "call" /\ chunk' = chunk \o Take(rc)
                  /\ UNCHANGED <<nlen, len, status>>
             ELSE /\ chunk' = chunk \o Take(rc)
                  /\ UNCHANGED <<rpc, nlen, len, delivered, status>>

receive_chunk_no_eof ==
    /\ rpc \in {"hdr", "body"}
    /\ \E rc \in 1..Min({Wanted, Len(stream)}) :
         stream' = Drop(rc) /\ ChunkRead(rc)
    /\ UNCHANGED <<closed, sidx, sent>>

receive_chunk ==
    /\ rpc \in {"hdr", "body"}
    /\ \/ Eof /\ Returns0
       \/ \E rc \in 1..Min({Wanted, Len(stream)}) :
            stream' = Drop(rc) /\ ChunkRead(rc)
    /\ UNCHANGED <<closed, sidx, sent>>

\* Both processes have exited.
Terminated == rpc = "done" /\ closed /\ UNCHANGED vars

Next == bsend \/ Close \/ breceive \/ receive_chunk \/ Terminated

Spec == Init /\ [][Next]_vars

(***************************************************************************)
(* The receiver loops on breceive and the sender loops on bsend without   *)
(* waiting for anything but readiness, so both are weakly fair.  Close    *)
(* is not: a sender may stay connected forever.                           *)
(***************************************************************************)
FairSpec == Spec /\ WF_vars(breceive \/ receive_chunk) /\ WF_vars(bsend)

(***************************************************************************)
(* The refinement mapping: a send is in progress once bsend has written   *)
(* part of the frame, and complete once bsend has returned 0.             *)
(***************************************************************************)
Chan == INSTANCE PongChannel
          WITH Payloads <- Range(Msgs),
               completed <- SubSeq(Msgs, 1, sidx - 1),
               sending <- IF sent > 0 THEN Msgs[sidx] ELSE NoMsg,
               outcome <- status

\* breceive returns exactly the messages bsend sent, in order, each whole,
\* whatever partial writes and reads the byte stream makes; it reports
\* EMSGSIZE only for an oversize message and end-of-stream only after every
\* completed message.
ChannelRefined == Chan!Spec

\* A receiver that keeps calling breceive gets every completed message and
\* then end-of-stream, even when the sender died within a frame.
ChannelProgress == Chan!Progress

=============================================================================
