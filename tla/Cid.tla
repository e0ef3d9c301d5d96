-------------------------------- MODULE Cid --------------------------------
(***************************************************************************)
(* The card identification number, as the uSDHC driver rebuilds it from    *)
(* the response registers (imx_usdhc.c, card_identify).  The RPMB layer    *)
(* derives the authentication key from these bytes, and the key is         *)
(* programmed once: the layout must never change between the paths to the  *)
(* device.                                                                 *)
(***************************************************************************)
EXTENDS Integers, Sequences

CID_SIZE == 16

\* The controller strips the last byte, the CRC, and puts the others at the low end of
\* the four response registers, register 3 the most significant.
ResponseRegisters(cid) ==
    LET bytes == <<0>> \o SubSeq(cid, 1, CID_SIZE - 1)
    IN  [k \in 0..3 |-> LET at == 4 * (3 - k) IN
            bytes[at + 1] * 16777216 + bytes[at + 2] * 65536 + bytes[at + 3] * 256 + bytes[at + 4]]

\* The registers, most significant byte first.
RawCid(resp) ==
    [j \in 1..CID_SIZE |->
        LET w == resp[3 - (j - 1) \div 4]
        IN  CASE j % 4 = 1 -> w \div 16777216
              [] j % 4 = 2 -> (w \div 65536) % 256
              [] j % 4 = 3 -> (w \div 256) % 256
              [] j % 4 = 0 -> w % 256]

\* A variant for testing the properties: the leading byte is kept.
card_identify_cid_Unshifted(resp, compat) == RawCid(resp)

\* usdhc_ctx.cid; compat is CFG_IMX_USDHC_CID_COMPAT, the layout of the first driver.
card_identify_cid(resp, compat) ==
    IF compat THEN RawCid(resp)
    ELSE SubSeq(RawCid(resp), 2, CID_SIZE) \o <<0>>

\* What it has to be: the JEDEC bytes with a zero for the CRC, behind them or, in the old
\* layout, in front of them.
JedecCid(cid, compat) ==
    LET id == SubSeq(cid, 1, CID_SIZE - 1) IN IF compat THEN <<0>> \o id ELSE id \o <<0>>
=============================================================================
