------------------------- MODULE XrpDspInterface -------------------------
(***************************************************************************)
(* The first word of the communication area and the tests both sides make  *)
(* on it (xrp-kernel/xrp_kernel_dsp_interface.h).                          *)
(*                                                                         *)
(* struct xrp_dsp_sync and struct xrp_dsp_cmd are laid over the same       *)
(* memory: the word is "sync" during the handshake and "flags" during the  *)
(* command exchange, and the values overlap (HOST_TO_DSP is a valid        *)
(* request, DSP_TO_HOST and DSP_READY are complete responses).  The        *)
(* numbers are therefore kept, and a bit mask is written with \div and %.  *)
(***************************************************************************)
EXTENDS Naturals

XRP_DSP_SYNC_IDLE == 0
XRP_DSP_SYNC_HOST_TO_DSP == 1
XRP_DSP_SYNC_DSP_TO_HOST == 3
XRP_DSP_SYNC_START == 257
XRP_DSP_SYNC_DSP_READY == 515

XRP_DSP_CMD_FLAG_REQUEST_VALID == 1
XRP_DSP_CMD_FLAG_RESPONSE_VALID == 2
XRP_DSP_CMD_FLAG_RESPONSE_DELIVERY_FAIL == 8

\* flags & (REQUEST_VALID | RESPONSE_VALID)
ValidBits(flags) == flags % 4

\* What the DSP takes for a request.
xrp_request_valid(flags) == ValidBits(flags) = XRP_DSP_CMD_FLAG_REQUEST_VALID

\* A mistake: one of the two bits is enough.
CompleteIfRequestValid(flags) == ValidBits(flags) # 0

\* What the host takes for a response.
xrp_cmd_complete(flags) ==
  ValidBits(flags) = XRP_DSP_CMD_FLAG_REQUEST_VALID + XRP_DSP_CMD_FLAG_RESPONSE_VALID

\* flags & RESPONSE_DELIVERY_FAIL
DeliveryFailed(flags) == (flags \div XRP_DSP_CMD_FLAG_RESPONSE_DELIVERY_FAIL) % 2 = 1

\* The word the host writes for a command: rq.flags carries neither valid
\* bit, and its NSID bit selects a namespace, which is not this module's.
RequestFlags == XRP_DSP_CMD_FLAG_REQUEST_VALID

\* The word the DSP writes back for it, with and without DELIVERY_FAIL.
ResponseFlags(fail) ==
  RequestFlags + XRP_DSP_CMD_FLAG_RESPONSE_VALID
    + (IF fail THEN XRP_DSP_CMD_FLAG_RESPONSE_DELIVERY_FAIL ELSE 0)

Words == {XRP_DSP_SYNC_IDLE, XRP_DSP_SYNC_HOST_TO_DSP, XRP_DSP_SYNC_DSP_TO_HOST,
          XRP_DSP_SYNC_START, XRP_DSP_SYNC_DSP_READY}
         \cup {RequestFlags, ResponseFlags(TRUE), ResponseFlags(FALSE)}

IrqModes == {"none", "level", "edge"}
==========================================================================
