------------------------------ MODULE FloppyProofs ------------------------------
(***************************************************************************)
(* Proofs about module Floppy, for any number of pongs, as many of them as *)
(* one likes in the middle of fpc_init, and for any disk of at most 80     *)
(* cylinders.                                                              *)
(*                                                                         *)
(* The invariant FInv follows one read place by place.  Left says what     *)
(* main may have left in the controller at each of its places: nothing,    *)
(* the first bytes of a command, an answer that nobody reads, or a command *)
(* READ TRACK that nobody meant, whose code is the last byte of SPECIFY.   *)
(* Path says what becomes of it: the read either falls in step with the    *)
(* controller before READ DATA, or its bytes complete that READ TRACK,     *)
(* whose answer says that it failed.  Only the first read can meet such    *)
(* remains, and any after it is in step from its first byte.  A controller *)
(* that SPECIFY was cut off into the mode without DMA stays in Pio.        *)
(***************************************************************************)
EXTENDS Floppy, SequenceTheorems, TLAPS

-----------------------------------------------------------------------------
(* The functions of the driver, operation by operation.                    *)

IsSeq(s, n) == n \in Nat /\ s = [i \in 1..n |-> s[i]]

(* One sequence behind another, under a name of its own: the provers take   *)
(* an application of \o apart.                                             *)
Then(s, t) == s \o t

(* The elements of s \o t are those of s and then those of t.              *)
LEMMA Behind ==
  ASSUME NEW s, NEW t, NEW m \in Nat, NEW n \in Nat, IsSeq(s, m), IsSeq(t, n)
  PROVE  /\ IsSeq(Then(s, t), m + n)
         /\ \A i \in 1..m : Then(s, t)[i] = s[i]
         /\ \A i \in 1..n : Then(s, t)[m + i] = t[i]
<1> DEFINE S == {s[i] : i \in 1..m} \cup {t[i] : i \in 1..n}
           r == Then(s, t)
<1>1. s \in Seq(S) /\ Len(s) = m
  <2>1. \A i \in 1..m : s[i] \in S
    OBVIOUS
  <2> HIDE DEF S
  <2>2. s \in [1..m -> S]
    BY <2>1 DEF IsSeq
  <2> QED BY <2>2
<1>2. t \in Seq(S) /\ Len(t) = n
  <2>1. \A i \in 1..n : t[i] \in S
    OBVIOUS
  <2> HIDE DEF S
  <2>2. t \in [1..n -> S]
    BY <2>1 DEF IsSeq
  <2> QED BY <2>2
<1> HIDE DEF S
<1>3. /\ r \in Seq(S) /\ Len(r) = m + n
      /\ \A i \in 1 .. m + n : r[i] = IF i <= m THEN s[i] ELSE t[i - m]
  BY <1>1, <1>2, ConcatProperties DEF Then
<1> HIDE DEF r
<1>4. IsSeq(r, m + n)
  BY <1>3 DEF IsSeq
<1>5. \A i \in 1..m : r[i] = s[i]
  BY <1>3
<1>6. ASSUME NEW i \in 1..n
      PROVE  r[m + i] = t[i]
  <2>1. m + i \in 1 .. m + n /\ ~(m + i <= m) /\ (m + i) - m = i
    OBVIOUS
  <2> QED BY <1>3, <2>1
<1> QED BY <1>4, <1>5, <1>6 DEF r

(* Each byte is sent and waited for.                                       *)
LEMMA SendAllOps ==
  ASSUME NEW bytes, NEW n \in Nat, Len(bytes) = n
  PROVE  /\ IsSeq(SendAll(bytes), 2 * n)
         /\ \A i \in 1..n : /\ SendAll(bytes)[2 * i - 1] = Op("outb", bytes[i])
                            /\ SendAll(bytes)[2 * i] = Op("wait", 0)
<1> DEFINE op(i) == FpcSendCmd(bytes[(i + 1) \div 2])[IF i % 2 = 1 THEN 1 ELSE 2]
           s == SendAll(bytes)
<1>1. s = [i \in 1 .. 2 * n |-> op(i)]
  BY DEF SendAll
<1> HIDE DEF op, s
<1>2. IsSeq(s, 2 * n)
  BY <1>1 DEF IsSeq
<1>3. ASSUME NEW i \in 1..n
      PROVE  s[2 * i - 1] = Op("outb", bytes[i]) /\ s[2 * i] = Op("wait", 0)
  <2>1. 2 * i \in 1 .. 2 * n /\ 2 * i - 1 \in 1 .. 2 * n
    OBVIOUS
  <2>2. /\ (2 * i - 1) % 2 = 1 /\ ((2 * i - 1) + 1) \div 2 = i
        /\ (2 * i) % 2 = 0 /\ (2 * i + 1) \div 2 = i
    OBVIOUS
  <2> QED BY <1>1, <2>1, <2>2 DEF op, FpcSendCmd
<1> QED BY <1>2, <1>3 DEF s

(* The functions of one or two operations: fpc_send_cmd, fpc_read_result,  *)
(* fpc_motor, fpc_reset.                                                   *)
LEMMA ShortOps ==
  /\ \A on : /\ IsSeq(FpcMotor(on), 2)
             /\ FpcMotor(on)[1] = Op("motor", on) /\ FpcMotor(on)[2] = Op("floppy_state", on)
  /\ \A byte : /\ IsSeq(FpcSendCmd(byte), 2)
               /\ FpcSendCmd(byte)[1] = Op("outb", byte) /\ FpcSendCmd(byte)[2] = Op("wait", 0)
  /\ \A do, v : IsSeq(<<Op(do, v)>>, 1) /\ <<Op(do, v)>>[1] = Op(do, v)
  /\ IsSeq(ClearFlag, 1) /\ ClearFlag[1] = Op("clear", 0)
  /\ IsSeq(FpcReadResult, 1) /\ FpcReadResult[1] = Op("inb", 0)
  /\ IsSeq(FpcReset, 2) /\ FpcReset[1] = Op("dor", 0) /\ FpcReset[2] = Op("dor", 12)
  /\ IsSeq(ReadStatus, 7) /\ \A i \in 1..7 : ReadStatus[i] = Op("inb", 0)
BY DEF IsSeq, FpcMotor, FpcSendCmd, ClearFlag, FpcReadResult, FpcReset, ReadStatus

(* floppy_fetch_res: SENSE INTERRUPT and the two bytes read after it.      *)
LEMMA FetchOps ==
  LET s == FloppyFetchRes
  IN  /\ IsSeq(s, 4)
      /\ s[1] = Op("outb", 8) /\ s[2] = Op("wait", 0)
      /\ s[3] = Op("inb", 0) /\ s[4] = Op("inb", 0)
<1> DEFINE s1 == FpcSendCmd(8)
           s2 == Then(s1, FpcReadResult)
           s3 == Then(s2, FpcReadResult)
<1> HIDE DEF s1, s2, s3
<1>1. IsSeq(s1, 2) /\ s1[1] = Op("outb", 8) /\ s1[2] = Op("wait", 0)
  BY ShortOps DEF s1
<1>2. IsSeq(s2, 3) /\ \A i \in 1..2 : s2[i] = s1[i]
      /\ s2[3] = FpcReadResult[1]
  BY <1>1, ShortOps, Behind DEF s2
<1>3. /\ IsSeq(s3, 4) /\ \A i \in 1..3 : s3[i] = s2[i]
      /\ s3[4] = FpcReadResult[1]
  BY <1>2, ShortOps, Behind DEF s3
<1>4. FloppyFetchRes = s3
  BY DEF FloppyFetchRes, s1, s2, s3, Then
<1> QED BY <1>1, <1>2, <1>3, <1>4, ShortOps

(* floppy_seek.                                                            *)
LEMMA SeekOps ==
  ASSUME NEW chs
  PROVE  LET s == FloppySeek(chs)
         IN  /\ IsSeq(s, 17)
             /\ s[1] = Op("motor", ON) /\ s[2] = Op("floppy_state", ON)
             /\ s[3] = Op("clear", 0) /\ s[10] = Op("clear", 0)
             /\ s[4] = Op("outb", 15) /\ s[6] = Op("outb", chs.head * 4)
             /\ s[8] = Op("outb", chs.cyl) /\ s[11] = Op("outb", 8)
             /\ \A i \in {5, 7, 9, 12} : s[i] = Op("wait", 0)
             /\ s[13] = Op("inb", 0) /\ s[14] = Op("inb", 0)
             /\ s[15] = Op("arrived", chs.cyl)
             /\ s[16] = Op("motor", OFF) /\ s[17] = Op("floppy_state", OFF)
<1> DEFINE bytes == <<15, chs.head * 4, chs.cyl>>
           send == SendAll(bytes)
           seven == <<Op("arrived", chs.cyl)>>
           off == FpcMotor(OFF)
           s1 == FpcMotor(ON)
           s2 == Then(s1, ClearFlag)
           s3 == Then(s2, send)
           s4 == Then(s3, ClearFlag)
           s5 == Then(s4, FloppyFetchRes)
           s6 == Then(s5, seven)
           s7 == Then(s6, off)
<1>1. Len(bytes) = 3 /\ bytes[1] = 15 /\ bytes[2] = chs.head * 4 /\ bytes[3] = chs.cyl
  OBVIOUS
<1>2. FloppySeek(chs) = s7
  BY DEF FloppySeek, Then
<1> HIDE DEF bytes
<1>3. IsSeq(send, 2 * 3) /\ \A i \in 1..3 : send[2 * i - 1] = Op("outb", bytes[i])
                                  /\ send[2 * i] = Op("wait", 0)
  BY <1>1, SendAllOps
<1> HIDE DEF send, seven, off, s1, s2, s3, s4, s5, s6, s7
<1>4. /\ send[1] = Op("outb", 15) /\ send[2] = Op("wait", 0)
      /\ send[3] = Op("outb", chs.head * 4) /\ send[4] = Op("wait", 0)
      /\ send[5] = Op("outb", chs.cyl) /\ send[6] = Op("wait", 0)
  BY <1>1, <1>3
<1>5. IsSeq(seven, 1) /\ seven[1] = Op("arrived", chs.cyl)
  BY ShortOps DEF seven
<1>6. IsSeq(ClearFlag, 1) /\ IsSeq(off, 2)
  BY ShortOps DEF off
<1>7. IsSeq(s1, 2) /\ s1[1] = Op("motor", ON) /\ s1[2] = Op("floppy_state", ON)
  BY ShortOps DEF s1
<1>8. IsSeq(s2, 3) /\ s2[3] = ClearFlag[1] /\ \A i \in 1..2 : s2[i] = s1[i]
  BY <1>6, <1>7, Behind DEF s2
<1>9. /\ IsSeq(s3, 9) /\ \A i \in 1..3 : s3[i] = s2[i]
      /\ \A i \in 1..6 : s3[3 + i] = send[i]
  BY <1>3, <1>8, Behind DEF s3
<1>10. IsSeq(s4, 10) /\ s4[10] = ClearFlag[1] /\ \A i \in 1..9 : s4[i] = s3[i]
  BY <1>6, <1>9, Behind DEF s4
<1>11. /\ IsSeq(s5, 14) /\ \A i \in 1..10 : s5[i] = s4[i]
       /\ \A i \in 1..4 : s5[10 + i] = FloppyFetchRes[i]
  BY <1>10, FetchOps, Behind DEF s5
<1>12. IsSeq(s6, 15) /\ s6[15] = seven[1] /\ \A i \in 1..14 : s6[i] = s5[i]
  BY <1>5, <1>11, Behind DEF s6
<1>13. /\ IsSeq(s7, 17) /\ \A i \in 1..15 : s7[i] = s6[i]
       /\ s7[16] = off[1] /\ s7[17] = off[2]
  BY <1>6, <1>12, Behind DEF s7
<1>14. /\ \A i \in 1..2 : s7[i] = s1[i]
       /\ s7[3] = ClearFlag[1] /\ s7[10] = ClearFlag[1]
       /\ \A i \in 1..6 : s7[3 + i] = send[i]
       /\ \A i \in 1..4 : s7[10 + i] = FloppyFetchRes[i]
       /\ s7[15] = seven[1]
  BY <1>8, <1>9, <1>10, <1>11, <1>12, <1>13
<1>15. /\ s7[4] = send[1] /\ s7[5] = send[2] /\ s7[6] = send[3]
       /\ s7[7] = send[4] /\ s7[8] = send[5] /\ s7[9] = send[6]
       /\ s7[11] = FloppyFetchRes[1] /\ s7[12] = FloppyFetchRes[2]
       /\ s7[13] = FloppyFetchRes[3] /\ s7[14] = FloppyFetchRes[4]
  BY <1>14
<1>16. IsSeq(FloppySeek(chs), 17)
  BY <1>2, <1>13
<1>17. s7[16] = Op("motor", OFF) /\ s7[17] = Op("floppy_state", OFF)
  BY <1>13, ShortOps DEF off
<1>18. s7[3] = Op("clear", 0) /\ s7[10] = Op("clear", 0)
  BY <1>14, ShortOps
<1>19. s7[1] = s1[1] /\ s7[2] = s1[2]
  BY <1>14
<1>20. s7[1] = Op("motor", ON) /\ s7[2] = Op("floppy_state", ON)
  BY <1>7, <1>19
<1>21. s7[15] = Op("arrived", chs.cyl)
  BY <1>5, <1>14
<1>22. /\ s7[11] = Op("outb", 8) /\ s7[12] = Op("wait", 0)
       /\ s7[13] = Op("inb", 0) /\ s7[14] = Op("inb", 0)
  BY <1>15, FetchOps
<1> QED BY <1>2, <1>4, <1>15, <1>16, <1>17, <1>22, <1>18, <1>20, <1>21

(* The nine bytes of READ DATA.                                            *)
ReadBytes(chs) ==
  <<198, chs.head * 4, chs.cyl, chs.head, chs.sector, 2, SECTORS_PER_TRACK, 27, 255>>

(* fpc_read: what it does at each of its 48 places.                        *)
LEMMA ReadOps ==
  ASSUME NEW lba
  PROVE  LET s == FpcRead(lba)
             chs == LbaToChs(lba)
         IN  /\ IsSeq(s, 48)
             /\ \A i \in 1..17 : s[i] = FloppySeek(chs)[i]
             /\ s[18] = Op("motor", ON) /\ s[19] = Op("floppy_state", ON)
             /\ s[20] = Op("dma", 0)
             /\ s[21] = Op("clear", 0) /\ s[40] = Op("clear", 0)
             /\ \A i \in 1..9 : s[20 + 2 * i] = Op("outb", ReadBytes(chs)[i])
             /\ \A i \in 1..9 : s[21 + 2 * i] = Op("wait", 0)
             /\ \A i \in 41..47 : s[i] = Op("inb", 0)
             /\ s[48] = Op("return", LEN)
<1> DEFINE chs == LbaToChs(lba)
           bytes == ReadBytes(chs)
           seek == FloppySeek(chs)
           on == FpcMotor(ON)
           dmaInit == <<Op("dma", 0)>>
           data == ReadData(chs)
           ret == <<Op("return", LEN)>>
           s2 == Then(seek, on)
           s3 == Then(s2, dmaInit)
           s4 == Then(s3, ClearFlag)
           s5 == Then(s4, data)
           s6 == Then(s5, ClearFlag)
           s7 == Then(s6, ReadStatus)
           s8 == Then(s7, ret)
<1>1. FpcRead(lba) = s8
  BY DEF FpcRead, Then
<1>2. Len(bytes) = 9
  BY DEF ReadBytes
<1>3. data = SendAll(bytes)
  BY DEF ReadData, ReadBytes
<1> HIDE DEF bytes
<1>4. /\ IsSeq(SendAll(bytes), 2 * 9)
      /\ \A i \in 1..9 : SendAll(bytes)[2 * i - 1] = Op("outb", bytes[i])
                         /\ SendAll(bytes)[2 * i] = Op("wait", 0)
  BY <1>2, SendAllOps
<1> HIDE DEF data, on, dmaInit, ret, seek, s2, s3, s4, s5, s6, s7, s8
<1>5. /\ IsSeq(data, 18)
      /\ \A i \in 1..9 : data[2 * i - 1] = Op("outb", bytes[i]) /\ data[2 * i] = Op("wait", 0)
  BY <1>3, <1>4
<1>6. IsSeq(seek, 17)
  BY SeekOps DEF seek
<1>7. IsSeq(ClearFlag, 1) /\ IsSeq(on, 2) /\ IsSeq(dmaInit, 1) /\ IsSeq(ret, 1) /\ IsSeq(ReadStatus, 7)
  BY ShortOps DEF on, dmaInit, ret
<1>8. /\ IsSeq(s2, 19) /\ \A i \in 1..17 : s2[i] = seek[i]
      /\ s2[18] = on[1] /\ s2[19] = on[2]
  BY <1>6, <1>7, Behind DEF s2
<1>9. IsSeq(s3, 20) /\ s3[20] = dmaInit[1] /\ \A i \in 1..19 : s3[i] = s2[i]
  BY <1>7, <1>8, Behind DEF s3
<1>10. IsSeq(s4, 21) /\ s4[21] = ClearFlag[1] /\ \A i \in 1..20 : s4[i] = s3[i]
  BY <1>7, <1>9, Behind DEF s4
<1>11. /\ IsSeq(s5, 39) /\ \A i \in 1..21 : s5[i] = s4[i]
       /\ \A i \in 1..18 : s5[21 + i] = data[i]
  BY <1>5, <1>10, Behind DEF s5
<1>12. IsSeq(s6, 40) /\ s6[40] = ClearFlag[1] /\ \A i \in 1..39 : s6[i] = s5[i]
  BY <1>7, <1>11, Behind DEF s6
<1>13. /\ IsSeq(s7, 47) /\ \A i \in 1..40 : s7[i] = s6[i]
       /\ \A i \in 1..7 : s7[40 + i] = ReadStatus[i]
  BY <1>7, <1>12, Behind DEF s7
<1>14. IsSeq(s8, 48) /\ s8[48] = ret[1] /\ \A i \in 1..47 : s8[i] = s7[i]
  BY <1>7, <1>13, Behind DEF s8
<1>15. /\ \A i \in 1..17 : s8[i] = seek[i]
       /\ s8[18] = on[1] /\ s8[19] = on[2] /\ s8[20] = dmaInit[1]
       /\ s8[21] = ClearFlag[1] /\ s8[40] = ClearFlag[1]
       /\ \A i \in 1..18 : s8[21 + i] = data[i]
  BY <1>8, <1>9, <1>10, <1>11, <1>12, <1>13, <1>14
<1>16. s8[18] = Op("motor", ON) /\ s8[19] = Op("floppy_state", ON)
  BY <1>15, ShortOps DEF on
<1>17. s8[21] = Op("clear", 0) /\ s8[40] = Op("clear", 0)
  BY <1>15, ShortOps
<1>18. s8[20] = Op("dma", 0) /\ s8[48] = Op("return", LEN)
  BY <1>14, <1>15, ShortOps DEF dmaInit, ret
<1>19. ASSUME NEW i \in 1..9
       PROVE  s8[20 + 2 * i] = Op("outb", bytes[i]) /\ s8[21 + 2 * i] = Op("wait", 0)
  <2>1. 2 * i - 1 \in 1..18 /\ 2 * i \in 1..18 /\ 21 + (2 * i - 1) = 20 + 2 * i
    OBVIOUS
  <2>2. s8[20 + 2 * i] = data[2 * i - 1] /\ s8[21 + 2 * i] = data[2 * i]
    BY <1>15, <2>1
  <2> QED BY <1>5, <2>2
<1>20. ASSUME NEW i \in 41..47
       PROVE  s8[i] = Op("inb", 0)
  <2>1. i - 40 \in 1..7 /\ 40 + (i - 40) = i
    OBVIOUS
  <2>2. s8[i] = s7[i] /\ s7[i] = ReadStatus[i - 40]
    BY <1>13, <1>14, <2>1
  <2> QED BY <2>1, <2>2, ShortOps
<1> QED BY <1>1, <1>14, <1>15, <1>16, <1>17, <1>18, <1>19, <1>20 DEF bytes, seek

(* fpc_init: the same for its 23 places.                                   *)
LEMMA InitOps ==
  LET s == FpcInit
  IN  /\ IsSeq(s, 23)
      /\ s[1] = Op("dor", 0) /\ s[2] = Op("dor", 12) /\ s[3] = Op("irq_wait", 0)
      /\ \A i \in {4, 6, 8, 10, 14, 16, 22} : s[i] = Op("wait", 0)
      /\ s[5] = Op("outb", 3) /\ s[7] = Op("outb", 223) /\ s[9] = Op("outb", 2)
      /\ s[11] = Op("motor", ON) /\ s[12] = Op("floppy_state", ON)
      /\ s[13] = Op("outb", 7) /\ s[15] = Op("outb", 0)
      /\ s[17] = Op("inb", 0) /\ s[18] = Op("inb", 0)
      /\ s[19] = Op("motor", OFF) /\ s[20] = Op("floppy_state", OFF)
      /\ s[21] = Op("outb", 20) /\ s[23] = Op("floppy_dmabuf", DMABUF)
<1> DEFINE b3 == <<3, 223, 2>>
           b2 == <<7, 0>>
           specify == SendAll(b3)
           recalibrate == SendAll(b2)
           irqWait == <<Op("irq_wait", 0)>>
           rate == <<Op("wait", 0)>>
           configure == Then(rate, specify)
           on == FpcMotor(ON)
           off == FpcMotor(OFF)
           lock == FpcSendCmd(20)
           buffer == <<Op("floppy_dmabuf", DMABUF)>>
           s2 == Then(FpcReset, irqWait)
           s3 == Then(s2, configure)
           s4 == Then(s3, on)
           s5 == Then(s4, recalibrate)
           s6 == Then(s5, FpcReadResult)
           s7 == Then(s6, FpcReadResult)
           s8 == Then(s7, off)
           s9 == Then(s8, lock)
           s10 == Then(s9, buffer)
<1>1. FpcInit = s10
  BY DEF FpcInit, FpcConfigure, Then
<1>2. Len(b3) = 3 /\ b3[1] = 3 /\ b3[2] = 223 /\ b3[3] = 2
  OBVIOUS
<1>3. Len(b2) = 2 /\ b2[1] = 7 /\ b2[2] = 0
  OBVIOUS
<1> HIDE DEF b3, b2
<1>4. /\ IsSeq(specify, 2 * 3)
      /\ \A i \in 1..3 : /\ specify[2 * i - 1] = Op("outb", b3[i])
                         /\ specify[2 * i] = Op("wait", 0)
  <2>1. Len(b3) = 3
    BY <1>2
  <2> QED BY <2>1, SendAllOps
<1>5. /\ IsSeq(recalibrate, 2 * 2)
      /\ \A i \in 1..2 : /\ recalibrate[2 * i - 1] = Op("outb", b2[i])
                         /\ recalibrate[2 * i] = Op("wait", 0)
  BY <1>3, SendAllOps
<1> HIDE DEF specify, recalibrate, irqWait, rate, configure, on, off, lock, buffer,
             s2, s3, s4, s5, s6, s7, s8, s9, s10
<1>6. /\ IsSeq(specify, 6)
      /\ specify[1] = Op("outb", 3) /\ specify[3] = Op("outb", 223) /\ specify[5] = Op("outb", 2)
      /\ specify[2] = Op("wait", 0) /\ specify[4] = Op("wait", 0) /\ specify[6] = Op("wait", 0)
  BY <1>2, <1>4
<1>7. /\ IsSeq(recalibrate, 4)
      /\ recalibrate[1] = Op("outb", 7) /\ recalibrate[3] = Op("outb", 0)
      /\ recalibrate[2] = Op("wait", 0) /\ recalibrate[4] = Op("wait", 0)
  BY <1>3, <1>5
<1>8. /\ IsSeq(FpcReset, 2) /\ IsSeq(irqWait, 1) /\ IsSeq(rate, 1) /\ IsSeq(FpcReadResult, 1)
      /\ IsSeq(buffer, 1)
  BY ShortOps DEF irqWait, rate, buffer
<1>9. IsSeq(on, 2) /\ IsSeq(off, 2) /\ IsSeq(lock, 2)
  BY ShortOps DEF on, off, lock
<1>10. /\ IsSeq(configure, 7) /\ configure[1] = rate[1]
      /\ \A i \in 1..6 : configure[1 + i] = specify[i]
  BY <1>6, <1>8, Behind DEF configure
<1>11. /\ IsSeq(s2, 3) /\ s2[1] = FpcReset[1] /\ s2[2] = FpcReset[2] /\ s2[3] = irqWait[1]
  BY <1>8, Behind DEF s2
<1>12. /\ IsSeq(s3, 10) /\ \A i \in 1..3 : s3[i] = s2[i]
       /\ \A i \in 1..7 : s3[3 + i] = configure[i]
  BY <1>10, <1>11, Behind DEF s3
<1>13. /\ IsSeq(s4, 12) /\ \A i \in 1..10 : s4[i] = s3[i]
       /\ s4[11] = on[1] /\ s4[12] = on[2]
  BY <1>9, <1>12, Behind DEF s4
<1>14. /\ IsSeq(s5, 16) /\ \A i \in 1..12 : s5[i] = s4[i]
       /\ \A i \in 1..4 : s5[12 + i] = recalibrate[i]
  BY <1>7, <1>13, Behind DEF s5
<1>15. IsSeq(s6, 17) /\ s6[17] = FpcReadResult[1] /\ \A i \in 1..16 : s6[i] = s5[i]
  BY <1>8, <1>14, Behind DEF s6
<1>16. IsSeq(s7, 18) /\ s7[18] = FpcReadResult[1] /\ \A i \in 1..17 : s7[i] = s6[i]
  BY <1>8, <1>15, Behind DEF s7
<1>17. /\ IsSeq(s8, 20) /\ s8[19] = off[1] /\ s8[20] = off[2]
       /\ \A i \in 1..18 : s8[i] = s7[i]
  BY <1>9, <1>16, Behind DEF s8
<1>18. /\ IsSeq(s9, 22) /\ s9[21] = lock[1] /\ s9[22] = lock[2]
       /\ \A i \in 1..20 : s9[i] = s8[i]
  BY <1>9, <1>17, Behind DEF s9
<1>19. IsSeq(s10, 23) /\ s10[23] = buffer[1] /\ \A i \in 1..22 : s10[i] = s9[i]
  BY <1>8, <1>18, Behind DEF s10
<1>20. /\ s10[1] = FpcReset[1] /\ s10[2] = FpcReset[2] /\ s10[3] = irqWait[1]
       /\ \A i \in 1..7 : s10[3 + i] = configure[i]
       /\ s10[11] = on[1] /\ s10[12] = on[2]
       /\ \A i \in 1..4 : s10[12 + i] = recalibrate[i]
       /\ s10[17] = FpcReadResult[1] /\ s10[18] = FpcReadResult[1]
       /\ s10[19] = off[1] /\ s10[20] = off[2]
       /\ s10[21] = lock[1] /\ s10[22] = lock[2]
  BY <1>11, <1>12, <1>13, <1>14, <1>15, <1>16, <1>17, <1>18, <1>19
<1>21. /\ s10[4] = rate[1]
       /\ s10[5] = specify[1] /\ s10[6] = specify[2] /\ s10[7] = specify[3]
       /\ s10[8] = specify[4] /\ s10[9] = specify[5] /\ s10[10] = specify[6]
       /\ s10[13] = recalibrate[1] /\ s10[14] = recalibrate[2]
       /\ s10[15] = recalibrate[3] /\ s10[16] = recalibrate[4]
  BY <1>10, <1>20
<1>22. /\ s10[1] = Op("dor", 0) /\ s10[2] = Op("dor", 12) /\ s10[3] = Op("irq_wait", 0)
       /\ s10[4] = Op("wait", 0) /\ s10[17] = Op("inb", 0) /\ s10[18] = Op("inb", 0)
       /\ s10[23] = Op("floppy_dmabuf", DMABUF)
  BY <1>19, <1>20, <1>21, ShortOps DEF irqWait, rate, buffer
<1>23. s10[11] = Op("motor", ON) /\ s10[12] = Op("floppy_state", ON)
  BY <1>20, ShortOps DEF on
<1>24. s10[19] = Op("motor", OFF) /\ s10[20] = Op("floppy_state", OFF)
  BY <1>20, ShortOps DEF off
<1>25. s10[21] = Op("outb", 20) /\ s10[22] = Op("wait", 0)
  BY <1>20, ShortOps DEF lock
<1>26. \A i \in {4, 6, 8, 10, 14, 16, 22} : s10[i] = Op("wait", 0)
  BY <1>6, <1>7, <1>21, <1>22, <1>25
<1> QED BY <1>1, <1>6, <1>7, <1>19, <1>21, <1>22, <1>23, <1>24, <1>25, <1>26

-----------------------------------------------------------------------------
(* What the CPU does next, by its place.                                   *)

(* The places of a sequence are 1 to its length.                           *)
LEMMA Places ==
  ASSUME NEW s, NEW n \in Nat, IsSeq(s, n)
  PROVE  DOMAIN s = 1..n /\ Len(s) = n
BY DEF IsSeq

(* fpc_init has 23 operations.                                             *)
LEMMA InitPlaces == DOMAIN FpcInit = 1..23 /\ Len(FpcInit) = 23
<1>1. IsSeq(FpcInit, 23)
  BY InitOps
<1> QED BY <1>1, Places

(* fpc_read has 48 operations.                                             *)
LEMMA ReadPlaces ==
  ASSUME NEW lba \in 0 .. Sectors - 1
  PROVE  FpcReads[lba] = FpcRead(lba) /\ DOMAIN FpcReads[lba] = 1..48
<1>1. FpcReads[lba] = FpcRead(lba)
  BY DEF FpcReads
<1>2. IsSeq(FpcRead(lba), 48)
  BY ReadOps
<1>3. DOMAIN FpcRead(lba) = 1..48
  BY <1>2, Places
<1> QED BY <1>1, <1>3

(* A place is even or odd.                                                 *)
LEMMA EvenOrOdd ==
  ASSUME NEW n \in 22..39
  PROVE  \E i \in 1..9 : n = 20 + 2 * i \/ n = 21 + 2 * i
OBVIOUS

(* fpc_read sends a byte or waits at these places.                         *)
Sends  == {4, 6, 8, 11} \cup {20 + 2 * i : i \in 1..9}
Awaits == {5, 7, 9, 12} \cup {21 + 2 * i : i \in 1..9}

Sent(n, chs) ==
  IF n = 4 THEN 15 ELSE IF n = 6 THEN chs.head * 4 ELSE IF n = 8 THEN chs.cyl
  ELSE IF n = 11 THEN 8 ELSE ReadBytes(chs)[(n - 20) \div 2]

(* The operation at each place of fpc_read, as Running gives it during a   *)
(* pong.                                                                   *)
LEMMA PongRuns ==
  ASSUME pong.on, pong.lba \in 0 .. Sectors - 1, NEW n \in 1..48, pong.next = n
  PROVE  LET chs == LbaToChs(pong.lba)
         IN  /\ n \in {1, 18} => Running = Op("motor", ON)
             /\ n = 16 => Running = Op("motor", OFF)
             /\ n \in {2, 19} => Running = Op("floppy_state", ON)
             /\ n = 17 => Running = Op("floppy_state", OFF)
             /\ n \in {3, 10, 21, 40} => Running = Op("clear", 0)
             /\ n \in Sends => Running = Op("outb", Sent(n, chs))
             /\ n \in Awaits => Running = Op("wait", 0)
             /\ n \in {13, 14} \cup 41..47 => Running = Op("inb", 0)
             /\ n = 15 => Running = Op("arrived", chs.cyl)
             /\ n = 20 => Running = Op("dma", 0)
             /\ n = 48 => Running = Op("return", LEN)
<1> DEFINE lba == pong.lba
           chs == LbaToChs(lba)
           seek == FloppySeek(chs)
           s == FpcRead(lba)
<1>1. Running = s[n]
  BY ReadPlaces DEF Running
<1> HIDE DEF s, seek, chs
<1>2. \A i \in 1..17 : s[i] = seek[i]
  BY ReadOps DEF s, seek, chs
<1>3. n \in {1, 18} => s[n] = Op("motor", ON)
  <2>1. s[18] = Op("motor", ON)
    BY ReadOps DEF s
  <2>2. seek[1] = Op("motor", ON)
    BY SeekOps DEF seek
  <2> QED BY <1>2, <2>1, <2>2
<1>4. n = 16 => s[n] = Op("motor", OFF)
  <2>1. seek[16] = Op("motor", OFF)
    BY SeekOps DEF seek
  <2> QED BY <1>2, <2>1
<1>5. n \in {2, 19} => s[n] = Op("floppy_state", ON)
  <2>1. s[19] = Op("floppy_state", ON)
    BY ReadOps DEF s
  <2>2. seek[2] = Op("floppy_state", ON)
    BY SeekOps DEF seek
  <2> QED BY <1>2, <2>1, <2>2
<1>6. n = 17 => s[n] = Op("floppy_state", OFF)
  <2>1. seek[17] = Op("floppy_state", OFF)
    BY SeekOps DEF seek
  <2> QED BY <1>2, <2>1
<1>7. n \in {3, 10, 21, 40} => s[n] = Op("clear", 0)
  <2>1. s[21] = Op("clear", 0) /\ s[40] = Op("clear", 0)
    BY ReadOps DEF s
  <2>2. seek[3] = Op("clear", 0) /\ seek[10] = Op("clear", 0)
    BY SeekOps DEF seek
  <2> QED BY <1>2, <2>1, <2>2
<1>8. ASSUME n \in Sends
      PROVE  s[n] = Op("outb", Sent(n, chs))
  <2>1. CASE n \in {4, 6, 8, 11}
    <3>1. /\ seek[4] = Op("outb", 15) /\ seek[6] = Op("outb", chs.head * 4)
          /\ seek[8] = Op("outb", chs.cyl) /\ seek[11] = Op("outb", 8)
      BY SeekOps DEF seek
    <3> QED BY <1>2, <2>1, <3>1 DEF Sent
  <2>2. ASSUME NEW i \in 1..9, n = 20 + 2 * i
        PROVE  s[n] = Op("outb", Sent(n, chs))
    <3>1. s[20 + 2 * i] = Op("outb", ReadBytes(chs)[i])
      BY ReadOps DEF s, chs
    <3>2. ((20 + 2 * i) - 20) \div 2 = i /\ n \notin {4, 6, 8, 11}
      BY <2>2
    <3>3. Sent(n, chs) = ReadBytes(chs)[i]
      BY <2>2, <3>2 DEF Sent
    <3> QED BY <2>2, <3>1, <3>3
  <2> QED BY <1>8, <2>1, <2>2 DEF Sends
<1>9. ASSUME n \in Awaits
      PROVE  s[n] = Op("wait", 0)
  <2>1. \A i \in {5, 7, 9, 12} : seek[i] = Op("wait", 0)
    BY SeekOps DEF seek
  <2>2. \A i \in 1..9 : s[21 + 2 * i] = Op("wait", 0)
    BY ReadOps DEF s
  <2> QED BY <1>2, <1>9, <2>1, <2>2 DEF Awaits
<1>10. n \in {13, 14} \cup 41..47 => s[n] = Op("inb", 0)
  <2>1. seek[13] = Op("inb", 0) /\ seek[14] = Op("inb", 0)
    BY SeekOps DEF seek
  <2>2. \A i \in 41..47 : s[i] = Op("inb", 0)
    BY ReadOps DEF s
  <2> QED BY <1>2, <2>1, <2>2
<1>11. n = 15 => s[n] = Op("arrived", chs.cyl)
  <2>1. seek[15] = Op("arrived", chs.cyl)
    BY SeekOps DEF seek
  <2> QED BY <1>2, <2>1
<1>12. s[20] = Op("dma", 0)
  BY ReadOps DEF s
<1>13. s[48] = Op("return", LEN)
  BY ReadOps DEF s
<1> QED BY <1>1, <1>3, <1>4, <1>5, <1>6, <1>7, <1>8, <1>9, <1>10, <1>11, <1>12, <1>13 DEF chs

(* So what it does tells where it is.                                      *)
LEMMA PongPlace ==
  ASSUME pong.on, pong.lba \in 0 .. Sectors - 1, NEW n \in 1..48, pong.next = n
  PROVE  /\ Running.do = "motor" => n \in {1, 16, 18}
         /\ Running.do = "floppy_state" => n \in {2, 17, 19}
         /\ Running.do = "clear" => n \in {3, 10, 21, 40}
         /\ Running.do = "outb" => n \in Sends
         /\ Running.do = "wait" => n \in Awaits
         /\ Running.do = "inb" => n \in {13, 14} \cup 41..47
         /\ Running.do = "arrived" => n = 15
         /\ Running.do = "dma" => n = 20
         /\ Running.do = "return" => n = 48
         /\ Running.do \notin {"dor", "irq_wait", "floppy_dmabuf", "kernel_bsy_loop"}
<1> DEFINE do == Running.do
<1>1. /\ n \in {1, 16, 18} => do = "motor"
      /\ n \in {2, 17, 19} => do = "floppy_state"
      /\ n \in {3, 10, 21, 40} => do = "clear"
      /\ n \in Sends => do = "outb"
      /\ n \in Awaits => do = "wait"
      /\ n \in {13, 14} \cup 41..47 => do = "inb"
      /\ n = 15 => do = "arrived"
      /\ n = 20 => do = "dma"
      /\ n = 48 => do = "return"
  BY PongRuns DEF Op
<1>2. \/ n \in {1, 16, 18} \/ n \in {2, 17, 19} \/ n \in {3, 10, 21, 40}
      \/ n \in Sends \/ n \in Awaits \/ n \in {13, 14} \cup 41..47
      \/ n = 15 \/ n = 20 \/ n = 48
  <2>1. CASE n \in 22..39
    BY <2>1, EvenOrOdd DEF Sends, Awaits
  <2>2. CASE n \notin 22..39
    <3>1. n \in 1..21 \cup 40..48
      BY <2>2
    <3> QED BY <3>1 DEF Sends, Awaits
  <2> QED BY <2>1, <2>2
<1> HIDE DEF do
<1>3. /\ do = "motor" => n \in {1, 16, 18}
      /\ do = "floppy_state" => n \in {2, 17, 19}
      /\ do = "clear" => n \in {3, 10, 21, 40}
      /\ do = "outb" => n \in Sends
      /\ do = "wait" => n \in Awaits
      /\ do = "inb" => n \in {13, 14} \cup 41..47
      /\ do = "arrived" => n = 15
      /\ do = "dma" => n = 20
      /\ do = "return" => n = 48
      /\ do \notin {"dor", "irq_wait", "floppy_dmabuf", "kernel_bsy_loop"}
  BY <1>1, <1>2
<1> QED BY <1>3 DEF do

(* The same for main.                                                      *)
LEMMA MainRuns ==
  ASSUME ~pong.on, NEW m \in 1..24, main = m
  PROVE  /\ m = 1 => Running = Op("dor", 0)
         /\ m = 2 => Running = Op("dor", 12)
         /\ m = 3 => Running = Op("irq_wait", 0)
         /\ m \in {4, 6, 8, 10, 14, 16, 22} => Running = Op("wait", 0)
         /\ m = 5 => Running = Op("outb", 3)
         /\ m = 7 => Running = Op("outb", 223)
         /\ m = 9 => Running = Op("outb", 2)
         /\ m = 11 => Running = Op("motor", ON)
         /\ m = 12 => Running = Op("floppy_state", ON)
         /\ m = 13 => Running = Op("outb", 7)
         /\ m = 15 => Running = Op("outb", 0)
         /\ m \in {17, 18} => Running = Op("inb", 0)
         /\ m = 19 => Running = Op("motor", OFF)
         /\ m = 20 => Running = Op("floppy_state", OFF)
         /\ m = 21 => Running = Op("outb", 20)
         /\ m = 23 => Running = Op("floppy_dmabuf", DMABUF)
         /\ m = 24 => Running = Op("kernel_bsy_loop", 0)
<1>1. m \in 1..23 => Running = FpcInit[m]
  BY InitPlaces DEF Running
<1>2. m = 24 => Running = Op("kernel_bsy_loop", 0)
  BY InitPlaces DEF Running
<1> QED BY <1>1, <1>2, InitOps

(* The places of fpc_init at which each operation stands.                  *)
LEMMA MainPlace ==
  ASSUME ~pong.on, NEW m \in 1..24, main = m
  PROVE  /\ Running.do = "dor" => m \in {1, 2}
         /\ Running.do = "irq_wait" => m = 3
         /\ Running.do = "wait" => m \in {4, 6, 8, 10, 14, 16, 22}
         /\ Running.do = "outb" => m \in {5, 7, 9, 13, 15, 21}
         /\ Running.do = "motor" => m \in {11, 19}
         /\ Running.do = "floppy_state" => m \in {12, 20}
         /\ Running.do = "inb" => m \in {17, 18}
         /\ Running.do = "floppy_dmabuf" => m = 23
         /\ Running.do \notin {"clear", "arrived", "dma", "return"}
<1> DEFINE do == Running.do
<1>1. /\ m \in {1, 2} => do = "dor"
      /\ m = 3 => do = "irq_wait"
      /\ m \in {4, 6, 8, 10, 14, 16, 22} => do = "wait"
      /\ m \in {5, 7, 9, 13, 15, 21} => do = "outb"
      /\ m \in {11, 19} => do = "motor"
      /\ m \in {12, 20} => do = "floppy_state"
      /\ m \in {17, 18} => do = "inb"
      /\ m = 23 => do = "floppy_dmabuf"
      /\ m = 24 => do = "kernel_bsy_loop"
  BY MainRuns DEF Op
<1> HIDE DEF do
<1>2. /\ do = "dor" => m \in {1, 2}
      /\ do = "irq_wait" => m = 3
      /\ do = "wait" => m \in {4, 6, 8, 10, 14, 16, 22}
      /\ do = "outb" => m \in {5, 7, 9, 13, 15, 21}
      /\ do = "motor" => m \in {11, 19}
      /\ do = "floppy_state" => m \in {12, 20}
      /\ do = "inb" => m \in {17, 18}
      /\ do = "floppy_dmabuf" => m = 23
      /\ do \notin {"clear", "arrived", "dma", "return"}
  BY <1>1
<1> QED BY <1>2 DEF do

-----------------------------------------------------------------------------
(* Sectors of the disk.                                                    *)

(* What \div and % are, for Z3.                                            *)
LEMMA Division ==
  ASSUME NEW a \in Nat, NEW b \in Nat, b # 0
  PROVE  /\ a \div b \in Nat /\ a % b \in Nat /\ a % b < b
         /\ a = b * (a \div b) + (a % b)
OBVIOUS

(* lba_to_chs: the place of a sector of the disk, by which the controller  *)
(* finds that sector.                                                      *)
LEMMA SectorPlace ==
  ASSUME NEW lba \in 0 .. Sectors - 1
  PROVE  LET chs == LbaToChs(lba)
         IN  /\ chs.cyl \in 0..79 /\ chs.head \in {0, 1} /\ chs.sector \in 1..SECTORS_PER_TRACK
             /\ (chs.cyl * 2 + chs.head) * SECTORS_PER_TRACK + chs.sector - 1 = lba
             /\ lba = 0 => chs.cyl = 0 /\ chs.head = 0
<1> DEFINE S == SECTORS_PER_TRACK
           c == lba \div (2 * S)
           r == lba % (2 * S)
           h == r \div S
           q == r % S
<1>1. S \in Nat /\ S # 0 /\ 2 * S \in Nat /\ 2 * S # 0 /\ Sectors <= 160 * S /\ lba \in Nat
      /\ Sectors \in Nat
  BY FloppyAssumption
<1>2. LbaToChs(lba) = [cyl |-> c, head |-> h, sector |-> q + 1]
  BY DEF LbaToChs
<1> HIDE DEF S
<1>3. c \in Nat /\ r \in Nat /\ r < 2 * S /\ lba = (2 * S) * c + r
  BY <1>1, Division
<1> HIDE DEF c, r
<1>4. h \in Nat /\ q \in Nat /\ q < S /\ r = S * h + q
  BY <1>1, <1>3, Division
<1> HIDE DEF h, q
<1>5. ASSUME h >= 2
      PROVE  FALSE
  <2>1. S * h >= S * 2
    BY <1>1, <1>4, <1>5
  <2> QED BY <1>1, <1>3, <1>4, <2>1
<1>6. ASSUME c >= 80
      PROVE  FALSE
  <2>1. (2 * S) * c >= (2 * S) * 80
    BY <1>1, <1>3, <1>6
  <2> QED BY <1>1, <1>3, <2>1
<1>7. (c * 2 + h) * S + (q + 1) - 1 = lba
  <2>1. (c * 2 + h) * S = (2 * S) * c + S * h
    BY <1>1, <1>3, <1>4
  <2>2. (2 * S) * c \in Nat /\ S * h \in Nat
    BY <1>1, <1>3, <1>4
  <2> QED BY <1>1, <1>3, <1>4, <2>1, <2>2
<1>8. ASSUME lba = 0
      PROVE  c = 0 /\ h = 0
  <2>1. (2 * S) * c \in Nat /\ S * h \in Nat
    BY <1>1, <1>3, <1>4
  <2>2. (2 * S) * c = 0 /\ S * h = 0
    BY <1>3, <1>4, <1>8, <2>1
  <2>3. c >= 1 => (2 * S) * c >= 2 * S
    BY <1>1, <1>3
  <2>4. h >= 1 => S * h >= S
    BY <1>1, <1>4
  <2> QED BY <1>1, <1>3, <1>4, <2>2, <2>3, <2>4
<1>9. c \in 0..79 /\ h \in {0, 1} /\ q + 1 \in 1..S
  BY <1>1, <1>3, <1>4, <1>5, <1>6
<1> QED BY <1>2, <1>7, <1>8, <1>9 DEF S

(* The bytes that name a sector are bytes.                                 *)
LEMMA SectorBytes ==
  ASSUME NEW lba \in 0 .. Sectors - 1
  PROVE  LET chs == LbaToChs(lba)
         IN  /\ chs.cyl \in Byte /\ chs.head * 4 \in {0, 4}
             /\ ReadBytes(chs) \in Seq(Byte) /\ Len(ReadBytes(chs)) = 9
             /\ \A n \in Sends : Sent(n, chs) \in Byte
<1> DEFINE chs == LbaToChs(lba)
           bytes == ReadBytes(chs)
<1>1. chs.cyl \in 0..79 /\ chs.head \in {0, 1} /\ chs.sector \in 1..SECTORS_PER_TRACK
  BY SectorPlace
<1> HIDE DEF chs
<1>2. SECTORS_PER_TRACK \in 1..255
  BY FloppyAssumption
<1>3. chs.cyl \in Byte /\ chs.head * 4 \in {0, 4} /\ chs.head * 4 \in Byte
  BY <1>1 DEF Byte
<1>4. chs.head \in Byte /\ chs.sector \in Byte /\ SECTORS_PER_TRACK \in Byte
  BY <1>1, <1>2 DEF Byte
<1>5. {2, 8, 15, 27, 198, 255} \subseteq Byte
  BY DEF Byte
<1>6. bytes \in Seq(Byte) /\ Len(bytes) = 9
  BY <1>3, <1>4, <1>5 DEF ReadBytes
<1>7. ASSUME NEW n \in Sends
      PROVE  Sent(n, chs) \in Byte
  <2>1. CASE n \in {4, 6, 8, 11}
    BY <1>3, <1>5, <2>1 DEF Sent
  <2>2. ASSUME n \notin {4, 6, 8, 11}
        PROVE  Sent(n, chs) \in Byte
    <3>1. PICK i \in 1..9 : n = 20 + 2 * i
      BY <2>2, <1>7 DEF Sends
    <3>2. (n - 20) \div 2 = i
      BY <3>1
    <3>3. Sent(n, chs) = bytes[i]
      BY <2>2, <3>2 DEF Sent
    <3> HIDE DEF bytes
    <3>4. bytes[i] \in Byte
      BY <1>6, <3>1, ElementOfSeq
    <3> QED BY <3>3, <3>4
  <2> QED BY <2>1, <2>2
<1> QED BY <1>3, <1>6, <1>7 DEF chs

-----------------------------------------------------------------------------
(* The controller.                                                         *)

Status == [of : Int, v : Byte]

(* A controller: its fields and their ranges.                              *)
Controller(f) ==
  /\ DOMAIN f = {"phase", "bytes", "result", "ndma", "seeking", "seekend", "sensei", "track", "dor"}
  /\ f.phase \in {"reset", "starting", "command", "execute", "result", "pio"}
  /\ f.bytes \in Seq(Byte) /\ f.result \in Seq(Status)
  /\ f.phase = "result" <=> f.result # <<>>
  /\ f.seeking \in Byte \cup {Nothing} /\ f.track \in Byte /\ f.sensei \in 0..4

(* What it may be doing: collecting the bytes b of a command, or n bytes   *)
(* of a command READ TRACK that nobody meant; answering with n bytes; in   *)
(* the transfer of command b, or in one without DMA; coming out of reset.  *)
Collects(f, b) == f.phase = "command" /\ f.bytes = b
ReadsTrack(f, n) == f.phase = "command" /\ Len(f.bytes) = n /\ f.bytes[1] = 2
Replies(f, n) == f.phase = "result" /\ f.bytes = <<>> /\ Len(f.result) = n
TrackTransfer(f) == f.phase = "execute" /\ f.bytes # <<>> /\ f.bytes[1] = 2
Pio(f) == f.phase = "pio" /\ f.ndma
Halted(f) == f.phase \in {"reset", "starting"} /\ f.bytes = <<>>

(* Replied puts the bytes into the result and changes no other field but   *)
(* the phase.                                                              *)
LEMMA RepliedResult ==
  ASSUME NEW f, DOMAIN f = DOMAIN fdc, Controller(fdc), NEW of \in Int,
         NEW values \in Seq(Byte), Len(values) > 0
  PROVE  LET g == Replied(f, of, values)
         IN  /\ DOMAIN g = DOMAIN f /\ g.phase = "result"
             /\ g.result \in Seq(Status) /\ Len(g.result) = Len(values) /\ g.result # <<>>
             /\ g.result[1].v = values[1]
             /\ \A x \in DOMAIN f \ {"phase", "result"} : g[x] = f[x]
<1> DEFINE r == [i \in DOMAIN values |-> [of |-> of, v |-> values[i]]]
           g == Replied(f, of, values)
           n == Len(values)
<1>1. g = [f EXCEPT !.phase = "result", !.result = r]
  BY DEF Replied
<1>2. n \in Nat /\ DOMAIN values = 1..n /\ \A i \in 1..n : values[i] \in Byte
  BY ElementOfSeq, LenProperties
<1> HIDE DEF n
<1>3. \A i \in 1..n : [of |-> of, v |-> values[i]] \in Status
  BY <1>2 DEF Status
<1>4. r \in [1..n -> Status] /\ r[1].v = values[1]
  BY <1>2, <1>3
<1> HIDE DEF r
<1>5. r \in Seq(Status) /\ Len(r) = n /\ r # <<>>
  <2>1. r \in Seq(Status) /\ Len(r) = n
    BY <1>2, <1>4
  <2> QED BY <1>2, <2>1, EmptySeq DEF n
<1>6. "phase" \in DOMAIN f /\ "result" \in DOMAIN f
  BY DEF Controller
<1>7. /\ DOMAIN g = DOMAIN f /\ g.phase = "result" /\ g.result = r
      /\ \A x \in DOMAIN f \ {"phase", "result"} : g[x] = f[x]
  BY <1>1, <1>6
<1> QED BY <1>4, <1>5, <1>7 DEF n

(* What a whole command brings about.                                      *)
LEMMA ExecutedCommand ==
  ASSUME Controller(fdc), fdc.phase = "command",
         NEW cmd \in Seq(Byte), cmd # <<>>,
         Len(cmd) > Parameters(cmd[1] % 32), fdc' = Executed(cmd)
  PROVE  LET code == cmd[1] % 32
         IN  /\ Controller(fdc')
             /\ code \in {3, 7, 15} => Collects(fdc', <<>>)
             /\ code = 8 => Replies(fdc', 1) \/ Replies(fdc', 2)
             /\ code \in {0, 20, 31} => Replies(fdc', 1)
             /\ code \in {2, 6} => /\ fdc'.bytes = cmd
                                   /\ fdc'.phase = "execute" \/ Pio(fdc')
             /\ fdc'.dor = fdc.dor
<1> DEFINE code == cmd[1] % 32
           f == [fdc EXCEPT !.bytes = <<>>]
<1>1. Len(cmd) \in Nat /\ Len(cmd) >= 1 /\ cmd[1] \in Byte
  BY EmptySeq, LenProperties, ElementOfSeq
<1>2. code \in 0..31
  <2>1. \A b \in 0..255 : b % 32 \in 0..31
    OBVIOUS
  <2> QED BY <1>1, <2>1 DEF Byte
<1> HIDE DEF code
<1>3. /\ DOMAIN f = DOMAIN fdc /\ f.bytes = <<>> /\ f.bytes \in Seq(Byte)
      /\ f.phase = "command" /\ f.result = <<>> /\ f.track = fdc.track /\ f.sensei = fdc.sensei
      /\ f.seeking = fdc.seeking /\ f.dor = fdc.dor /\ f.ndma = fdc.ndma
  BY DEF Controller
<1>4. Controller(f)
  BY <1>3 DEF Controller
<1> HIDE DEF f
<1>5. ASSUME NEW values \in Seq(Byte), NEW n \in 1..2, Len(values) = n, NEW of \in Int, NEW h,
             DOMAIN h = DOMAIN fdc, \A x \in DOMAIN fdc \ {"sensei", "seekend"} : h[x] = f[x],
             h.sensei \in 0..4,
             fdc' = Replied(h, of, values)
      PROVE  Controller(fdc') /\ Replies(fdc', n) /\ fdc'.dor = fdc.dor
  <2>1. /\ DOMAIN fdc' = DOMAIN fdc /\ fdc'.phase = "result"
        /\ fdc'.result \in Seq(Status) /\ Len(fdc'.result) = n /\ fdc'.result # <<>>
        /\ \A x \in DOMAIN fdc \ {"phase", "result"} : fdc'[x] = h[x]
    BY <1>5, RepliedResult
  <2>2. /\ fdc'.bytes = f.bytes /\ fdc'.seeking = f.seeking /\ fdc'.track = f.track
        /\ fdc'.sensei \in 0..4 /\ fdc'.dor = f.dor
    BY <1>5, <2>1 DEF Controller
  <2> QED BY <1>3, <1>4, <2>1, <2>2 DEF Controller, Replies
<1>6. CASE code \in Transfers \cup {10, 13}
  <2>1. fdc' = [f EXCEPT !.phase = IF fdc.ndma THEN "pio" ELSE "execute", !.bytes = cmd]
    <3>1. code \notin {3, 7, 15, 8, 18, 19, 4, 16, 20}
      BY <1>6 DEF Transfers
    <3> QED BY <1>6, <3>1, Zenon DEF Executed, f, code, SenseCommand
  <2>2. /\ DOMAIN fdc' = DOMAIN fdc /\ fdc'.bytes = cmd /\ fdc'.result = <<>>
        /\ fdc'.phase = IF fdc.ndma THEN "pio" ELSE "execute"
        /\ fdc'.track = fdc.track /\ fdc'.sensei = fdc.sensei /\ fdc'.seeking = fdc.seeking
        /\ fdc'.ndma = fdc.ndma /\ fdc'.dor = fdc.dor
    BY <1>3, <2>1 DEF Controller
  <2>3. Controller(fdc')
    BY <1>3, <1>4, <2>2 DEF Controller
  <2> QED BY <1>6, <2>2, <2>3 DEF Pio, Transfers, code
<1>7. CASE code \in {3, 7, 15}
  <2>1. /\ code = 3 => fdc' = [f EXCEPT !.ndma = (cmd[3] % 2 = 1)]
        /\ code = 7 => fdc' = [f EXCEPT !.seeking = 0]
        /\ code = 15 => fdc' = [f EXCEPT !.seeking = cmd[3]]
    BY <1>7 DEF Executed, f, code, Transfers, SenseCommand
  <2>2. code = 15 => cmd[3] \in Byte
    <3>1. code = 15 => Len(cmd) > 2
      BY DEF Parameters, Transfers, code
    <3> QED BY <1>1, <3>1, ElementOfSeq
  <2>3. /\ DOMAIN fdc' = DOMAIN fdc /\ fdc'.bytes = <<>> /\ fdc'.result = <<>>
        /\ fdc'.phase = "command" /\ fdc'.track = fdc.track /\ fdc'.sensei = fdc.sensei
        /\ fdc'.dor = fdc.dor
        /\ fdc'.seeking \in {0, cmd[3], fdc.seeking} /\ (code # 15 => fdc'.seeking \in {0, fdc.seeking})
    BY <1>3, <1>7, <2>1 DEF Controller
  <2>4. fdc'.seeking \in Byte \cup {Nothing}
    <3>1. 0 \in Byte /\ f.seeking \in Byte \cup {Nothing}
      BY <1>4 DEF Controller, Byte
    <3> QED BY <1>3, <2>2, <2>3, <3>1
  <2>5. Controller(fdc')
    BY <1>3, <1>4, <2>3, <2>4 DEF Controller
  <2> QED BY <1>7, <2>3, <2>5 DEF Collects, code
<1>8. CASE code = SenseCommand
  <2>1. fdc' = SenseInterrupt(f)
    BY <1>8 DEF Executed, f, code, Transfers, SenseCommand
  <2>2. CASE f.sensei > 0
    <3> DEFINE values == <<196 - f.sensei, f.track>>
               h == [f EXCEPT !.sensei = @ - 1]
    <3>1. values \in Seq(Byte) /\ Len(values) = 2
      <4>1. f.sensei \in 0..4 /\ f.track \in Byte
        BY <1>4 DEF Controller
      <4>2. \A x \in 0..4 : 196 - x \in Byte
        BY DEF Byte
      <4> QED BY <4>1, <4>2
    <3>2. DOMAIN h = DOMAIN fdc /\ h.sensei \in 0..4
          /\ \A x \in DOMAIN fdc \ {"sensei", "seekend"} : h[x] = f[x]
      BY <1>3, <1>4, <2>2 DEF Controller
    <3>3. fdc' = Replied(h, SenseCommand, values)
      BY <2>1, <2>2 DEF SenseInterrupt
    <3> HIDE DEF values, h
    <3>4. Controller(fdc') /\ Replies(fdc', 2) /\ fdc'.dor = fdc.dor
      BY <1>5, <3>1, <3>2, <3>3 DEF SenseCommand
    <3> QED BY <1>8, <3>4 DEF SenseCommand, code
  <2>3. CASE ~(f.sensei > 0) /\ f.seekend
    <3> DEFINE values == <<32, f.track>>
               h == [f EXCEPT !.seekend = FALSE]
    <3>1. values \in Seq(Byte) /\ Len(values) = 2
      BY <1>4 DEF Controller, Byte
    <3>2. DOMAIN h = DOMAIN fdc /\ h.sensei \in 0..4
          /\ \A x \in DOMAIN fdc \ {"sensei", "seekend"} : h[x] = f[x]
      BY <1>3, <1>4 DEF Controller
    <3>3. fdc' = Replied(h, SenseCommand, values)
      BY <2>1, <2>3 DEF SenseInterrupt
    <3> HIDE DEF values, h
    <3>4. Controller(fdc') /\ Replies(fdc', 2) /\ fdc'.dor = fdc.dor
      BY <1>5, <3>1, <3>2, <3>3 DEF SenseCommand
    <3> QED BY <1>8, <3>4 DEF SenseCommand, code
  <2>4. CASE ~(f.sensei > 0) /\ ~f.seekend
    <3> DEFINE values == <<128>>
    <3>1. values \in Seq(Byte) /\ Len(values) = 1
      BY DEF Byte
    <3>2. fdc' = Replied(f, SenseCommand, values)
      BY <2>1, <2>4 DEF SenseInterrupt
    <3> HIDE DEF values
    <3>3. DOMAIN f = DOMAIN fdc /\ f.sensei \in 0..4
      BY <1>3, <1>4 DEF Controller
    <3>4. Controller(fdc') /\ Replies(fdc', 1) /\ fdc'.dor = fdc.dor
      BY <1>5, <3>1, <3>2, <3>3 DEF SenseCommand
    <3> QED BY <1>8, <3>4 DEF SenseCommand, code
  <2> QED BY <2>2, <2>3, <2>4
<1>9. CASE code \in {18, 19}
  <2>1. fdc' = f
    BY <1>9 DEF Executed, f, code, Transfers, SenseCommand
  <2> QED BY <1>3, <1>4, <1>9, <2>1 DEF code
<1>10. CASE code \notin Transfers \cup {3, 7, 8, 10, 13, 15, 18, 19}
  <2>1. \E of \in Int : \E v \in {0, 128} : fdc' = Replied(f, of, <<v>>)
    <3>1. code \in Int
      BY <1>2
    <3>2. CASE code \in {4, 16, 20}
      <4>1. fdc' = Replied(f, code, <<0>>)
        BY <1>10, <3>2 DEF Executed, f, code, Transfers, SenseCommand
      <4> QED BY <3>1, <4>1
    <3>3. CASE code \notin {4, 16, 20}
      <4>1. fdc' = Replied(f, code, <<128>>)
        BY <1>10, <3>3 DEF Executed, f, code, Transfers, SenseCommand
      <4> QED BY <3>1, <4>1
    <3> QED BY <3>2, <3>3
  <2>2. PICK of \in Int, v \in {0, 128} : fdc' = Replied(f, of, <<v>>)
    BY <2>1
  <2> DEFINE values == <<v>>
  <2>3. values \in Seq(Byte) /\ Len(values) = 1
    BY DEF Byte
  <2> HIDE DEF values
  <2>4. DOMAIN f = DOMAIN fdc /\ f.sensei \in 0..4
    BY <1>3, <1>4 DEF Controller
  <2>5. fdc' = Replied(f, of, values)
    BY <2>2 DEF values
  <2>6. Controller(fdc') /\ Replies(fdc', 1) /\ fdc'.dor = fdc.dor
    BY <1>5, <2>3, <2>4, <2>5
  <2> QED BY <1>10, <2>6 DEF Transfers, code
<1> QED BY <1>2, <1>6, <1>7, <1>8, <1>9, <1>10 DEF SenseCommand

(* A byte written is one more of a command, or the last one.               *)
LEMMA WrittenByte ==
  ASSUME Controller(fdc), NEW byte \in Byte, fdc' = FdcWritten(byte)
  PROVE  LET cmd == Append(fdc.bytes, byte)
         IN  /\ Controller(fdc') /\ fdc'.dor = fdc.dor
             /\ fdc.phase # "command" => fdc' = fdc
             /\ cmd \in Seq(Byte) /\ Len(cmd) = Len(fdc.bytes) + 1 /\ cmd # <<>>
             /\ fdc.phase = "command" /\ Len(cmd) <= Parameters(cmd[1] % 32) => Collects(fdc', cmd)
             /\ fdc.phase = "command" /\ Len(cmd) > Parameters(cmd[1] % 32) => fdc' = Executed(cmd)
<1> DEFINE cmd == Append(fdc.bytes, byte)
           code == cmd[1] % 32
<1>1. fdc.bytes \in Seq(Byte) /\ Len(fdc.bytes) \in Nat
  BY LenProperties DEF Controller
<1>2. cmd \in Seq(Byte) /\ Len(cmd) = Len(fdc.bytes) + 1
  BY <1>1, AppendProperties
<1>3. cmd # <<>>
  BY <1>1, <1>2, EmptySeq
<1>4. Parameters(code) \in Nat
  BY DEF Parameters
<1>5. /\ fdc.phase # "command" => fdc' = fdc
      /\ fdc.phase = "command" /\ Len(cmd) <= Parameters(code) => fdc' = [fdc EXCEPT !.bytes = cmd]
      /\ fdc.phase = "command" /\ ~(Len(cmd) <= Parameters(code)) => fdc' = Executed(cmd)
  BY DEF FdcWritten
<1> HIDE DEF cmd
<1>6. CASE fdc.phase # "command"
  BY <1>2, <1>3, <1>5, <1>6 DEF cmd
<1>7. CASE fdc.phase = "command" /\ Len(cmd) <= Parameters(code)
  <2>1. fdc' = [fdc EXCEPT !.bytes = cmd]
    BY <1>5, <1>7
  <2>2. Controller(fdc') /\ fdc'.dor = fdc.dor /\ Collects(fdc', cmd)
    BY <1>2, <1>7, <2>1 DEF Controller, Collects
  <2> QED BY <1>1, <1>2, <1>3, <1>4, <1>7, <2>2 DEF cmd
<1>8. CASE fdc.phase = "command" /\ ~(Len(cmd) <= Parameters(code))
  <2>1. Len(cmd) > Parameters(code) /\ fdc' = Executed(cmd)
    BY <1>1, <1>2, <1>4, <1>5, <1>8
  <2>2. Controller(fdc') /\ fdc'.dor = fdc.dor
    BY <1>2, <1>3, <1>8, <2>1, ExecutedCommand
  <2> QED BY <1>2, <1>3, <1>8, <2>1, <2>2 DEF cmd
<1> QED BY <1>6, <1>7, <1>8

(* The first byte of a command.                                            *)
LEMMA FirstByte ==
  ASSUME Controller(fdc), Collects(fdc, <<>>), NEW byte \in Byte, fdc' = FdcWritten(byte)
  PROVE  /\ byte \in {3, 7, 15, 198} => Collects(fdc', <<byte>>)
         /\ byte = 2 => ReadsTrack(fdc', 1)
         /\ byte = 8 => Replies(fdc', 1) \/ Replies(fdc', 2)
         /\ byte \in {0, 20, 223} => Replies(fdc', 1)
<1> DEFINE cmd == <<byte>>
           code == cmd[1] % 32
<1>1. fdc.phase = "command" /\ Append(fdc.bytes, byte) = cmd
  BY DEF Collects
<1>2. Len(cmd) = 1 /\ cmd[1] = byte /\ cmd # <<>> /\ cmd \in Seq(Byte)
  OBVIOUS
<1>3. /\ Len(cmd) <= Parameters(code) => Collects(fdc', cmd)
      /\ Len(cmd) > Parameters(code) => fdc' = Executed(cmd)
  BY <1>1, WrittenByte
<1> HIDE DEF cmd
<1>4. ASSUME byte \in {2, 3, 7, 15, 198}
      PROVE  Collects(fdc', cmd)
  <2>1. code \in {2, 3, 6, 7, 15}
    BY <1>2, <1>4
  <2>2. Parameters(code) >= 1
    BY <2>1 DEF Parameters, Transfers
  <2> QED BY <1>2, <1>3, <2>2
<1>5. ASSUME byte \in {0, 8, 20, 223}
      PROVE  fdc' = Executed(cmd) /\ Len(cmd) > Parameters(code)
  <2>1. code \in {0, 8, 20, 31}
    BY <1>2, <1>5
  <2>2. Parameters(code) = 0
    BY <2>1 DEF Parameters, Transfers
  <2> QED BY <1>2, <1>3, <2>2
<1>6. byte = 2 => ReadsTrack(fdc', 1)
  BY <1>2, <1>4 DEF Collects, ReadsTrack
<1>7. byte \in {3, 7, 15, 198} => Collects(fdc', <<byte>>)
  BY <1>4 DEF cmd
<1>8. byte = 8 => Replies(fdc', 1) \/ Replies(fdc', 2)
  <2>1. byte = 8 => code = 8
    BY <1>2
  <2> QED BY <1>1, <1>2, <1>5, <2>1, ExecutedCommand
<1>9. byte \in {0, 20, 223} => Replies(fdc', 1)
  <2>1. byte \in {0, 20, 223} => code \in {0, 20, 31}
    BY <1>2
  <2> QED BY <1>1, <1>2, <1>5, <2>1, ExecutedCommand
<1> QED BY <1>6, <1>7, <1>8, <1>9

(* The first bytes of a command, one behind another.                       *)
LEMMA AppendedByte ==
  ASSUME NEW a, NEW b, NEW c
  PROVE  Append(<<a>>, b) = <<a, b>> /\ Append(<<a, b>>, c) = <<a, b, c>>
<1> DEFINE S == {a, b, c}
           s1 == Append(<<a>>, b)
           s2 == Append(<<a, b>>, c)
<1>1. <<a>> \in Seq(S) /\ <<a, b>> \in Seq(S) /\ <<a, b, c>> \in Seq(S) /\ {a, b, c} \subseteq S
  OBVIOUS
<1> HIDE DEF S
<1>2. s1 \in Seq(S) /\ Len(s1) = 2 /\ s1[1] = a /\ s1[2] = b
  BY <1>1, AppendProperties
<1>3. s2 \in Seq(S) /\ Len(s2) = 3 /\ s2[1] = a /\ s2[2] = b /\ s2[3] = c
  BY <1>1, AppendProperties
<1> HIDE DEF s1, s2
<1>4. s1 = <<a, b>>
  BY <1>1, <1>2, SeqEqual
<1>5. s2 = <<a, b, c>>
  BY <1>1, <1>3, SeqEqual
<1> QED BY <1>4, <1>5 DEF s1, s2

(* The second and the third.                                               *)
LEMMA SecondByte ==
  ASSUME Controller(fdc), NEW first \in {3, 7, 15}, Collects(fdc, <<first>>),
         NEW byte \in Byte, fdc' = FdcWritten(byte)
  PROVE  /\ first # 7 => Collects(fdc', <<first, byte>>)
         /\ first = 7 => Collects(fdc', <<>>)
<1> DEFINE cmd == <<first, byte>>
           code == cmd[1] % 32
<1>1. fdc.phase = "command" /\ Append(fdc.bytes, byte) = cmd
  <2>1. fdc.phase = "command" /\ fdc.bytes = <<first>>
    BY DEF Collects
  <2>2. Append(<<first>>, byte) = cmd
    BY AppendedByte
  <2> QED BY <2>1, <2>2
<1>2. Len(cmd) = 2 /\ cmd[1] = first /\ cmd # <<>>
  OBVIOUS
<1>3. /\ cmd \in Seq(Byte)
      /\ Len(cmd) <= Parameters(code) => Collects(fdc', cmd)
      /\ Len(cmd) > Parameters(code) => fdc' = Executed(cmd)
  BY <1>1, WrittenByte
<1> HIDE DEF cmd
<1>4. code = first
  BY <1>2
<1>5. Parameters(code) = IF first = 7 THEN 1 ELSE 2
  BY <1>4 DEF Parameters, Transfers
<1>6. first # 7 => Collects(fdc', <<first, byte>>)
  BY <1>2, <1>3, <1>5 DEF cmd
<1>7. ASSUME first = 7
      PROVE  Collects(fdc', <<>>)
  <2>1. Len(cmd) > Parameters(cmd[1] % 32) /\ cmd[1] % 32 = 7
    BY <1>2, <1>4, <1>5, <1>7
  <2>2. fdc' = Executed(cmd)
    BY <1>3, <2>1
  <2> QED BY <1>1, <1>2, <1>3, <2>1, <2>2, ExecutedCommand
<1> QED BY <1>6, <1>7

(* The third byte of a command: it ends SPECIFY and SEEK and no other.     *)
LEMMA ThirdByte ==
  ASSUME Controller(fdc), NEW first \in {3, 15}, NEW second, Collects(fdc, <<first, second>>),
         NEW byte \in Byte, fdc' = FdcWritten(byte)
  PROVE  Collects(fdc', <<>>)
<1> DEFINE cmd == <<first, second, byte>>
           code == cmd[1] % 32
<1>1. fdc.phase = "command" /\ Append(fdc.bytes, byte) = cmd
  <2>1. fdc.phase = "command" /\ fdc.bytes = <<first, second>>
    BY DEF Collects
  <2>2. Append(<<first, second>>, byte) = cmd
    BY AppendedByte
  <2> QED BY <2>1, <2>2
<1>2. Len(cmd) = 3 /\ cmd[1] = first /\ cmd # <<>>
  OBVIOUS
<1>3. /\ cmd \in Seq(Byte)
      /\ Len(cmd) > Parameters(code) => fdc' = Executed(cmd)
  BY <1>1, WrittenByte
<1> HIDE DEF cmd
<1>4. code = first
  BY <1>2
<1>5. Parameters(code) = 2
  BY <1>4 DEF Parameters, Transfers
<1>6. Len(cmd) > Parameters(cmd[1] % 32) /\ cmd[1] % 32 \in {3, 15}
  BY <1>2, <1>4, <1>5
<1>7. fdc' = Executed(cmd)
  BY <1>3, <1>6
<1> QED BY <1>1, <1>2, <1>3, <1>6, <1>7, ExecutedCommand

(* The bytes of a transfer: of a READ TRACK, and of the READ DATA b.       *)
LEMMA TrackByte ==
  ASSUME Controller(fdc), NEW n \in 1..8, ReadsTrack(fdc, n),
         NEW byte \in Byte, fdc' = FdcWritten(byte)
  PROVE  /\ n < 8 => ReadsTrack(fdc', n + 1)
         /\ n = 8 => TrackTransfer(fdc') \/ Pio(fdc')
<1> DEFINE cmd == Append(fdc.bytes, byte)
           code == cmd[1] % 32
<1>1. fdc.phase = "command" /\ Len(fdc.bytes) = n /\ fdc.bytes[1] = 2 /\ fdc.bytes \in Seq(Byte)
  BY DEF ReadsTrack, Controller
<1>2. Len(cmd) = n + 1 /\ cmd[1] = 2
  BY <1>1, AppendProperties
<1>3. /\ cmd \in Seq(Byte) /\ cmd # <<>>
      /\ Len(cmd) <= Parameters(code) => Collects(fdc', cmd)
      /\ Len(cmd) > Parameters(code) => fdc' = Executed(cmd)
  BY <1>1, WrittenByte
<1> HIDE DEF cmd
<1>4. code = 2
  BY <1>2
<1>5. Parameters(code) = 8
  BY <1>4 DEF Parameters, Transfers
<1>6. n < 8 => ReadsTrack(fdc', n + 1)
  BY <1>2, <1>3, <1>5 DEF Collects, ReadsTrack
<1>7. ASSUME n = 8
      PROVE  fdc'.bytes = cmd /\ (fdc'.phase = "execute" \/ Pio(fdc'))
  <2>1. Len(cmd) > Parameters(cmd[1] % 32) /\ cmd[1] % 32 = 2
    BY <1>2, <1>4, <1>5, <1>7
  <2>2. fdc' = Executed(cmd)
    BY <1>3, <2>1
  <2> QED BY <1>1, <1>3, <2>1, <2>2, ExecutedCommand
<1> QED BY <1>2, <1>3, <1>6, <1>7 DEF TrackTransfer

(* What the prefixes of those nine bytes are.                              *)
LEMMA Elements ==
  ASSUME NEW b \in Seq(Byte), Len(b) = 9
  PROVE  /\ \A i \in 1..9 : b[i] \in Byte
         /\ \A k \in 0..9 : LET q == SubSeq(b, 1, k)
                            IN  /\ q \in Seq(Byte) /\ Len(q) = k
                                /\ \A i \in 1..k : q[i] = b[i]
<1>1. b \in [1..9 -> Byte]
  BY LenProperties
<1>2. ASSUME NEW k \in 0..9
      PROVE  LET q == SubSeq(b, 1, k)
             IN  q \in Seq(Byte) /\ Len(q) = k /\ \A i \in 1..k : q[i] = b[i]
  <2>1. \A i \in 1..k : b[i] \in Byte
    BY <1>1
  <2>2. /\ SubSeq(b, 1, k) \in Seq(Byte) /\ Len(SubSeq(b, 1, k)) = IF 1 <= k THEN k - 1 + 1 ELSE 0
        /\ \A i \in 1 .. k - 1 + 1 : SubSeq(b, 1, k)[i] = b[1 + i - 1]
    BY <2>1, SubSeqProperties
  <2> QED BY <2>2
<1> QED BY <1>1, <1>2

(* A byte of READ DATA: it is collected, and the ninth starts the          *)
(* transfer.                                                               *)
LEMMA ReadByte ==
  ASSUME Controller(fdc), NEW b \in Seq(Byte), Len(b) = 9, b[1] = 198,
         NEW j \in 0..8, Collects(fdc, SubSeq(b, 1, j)), fdc' = FdcWritten(b[j + 1])
  PROVE  /\ j < 8 => Collects(fdc', SubSeq(b, 1, j + 1))
         /\ j = 8 => fdc'.bytes = b /\ (fdc'.phase = "execute" \/ Pio(fdc'))
<1>1. \A k \in 0..9 : /\ SubSeq(b, 1, k) \in Seq(Byte) /\ Len(SubSeq(b, 1, k)) = k
                      /\ \A i \in 1..k : SubSeq(b, 1, k)[i] = b[i]
  BY ONLY b \in Seq(Byte), Len(b) = 9, Elements, Zenon
<1>2. j \in 0..9 /\ j + 1 \in 0..9
  OBVIOUS
<1> DEFINE part == SubSeq(b, 1, j)
           cmd == Append(part, b[j + 1])
           code == cmd[1] % 32
<1>3. fdc.phase = "command" /\ fdc.bytes = part
  BY DEF Collects
<1>4. b[j + 1] \in Byte
  <2>1. \A i \in 1..9 : b[i] \in Byte
    BY Elements
  <2>2. j + 1 \in 1..9
    OBVIOUS
  <2> QED BY <2>1, <2>2
<1>5. /\ part \in Seq(Byte) /\ Len(part) = j
      /\ \A i \in 1..j : part[i] = b[i]
  BY <1>1, <1>2
<1> HIDE DEF part
<1>6. /\ cmd \in Seq(Byte) /\ Len(cmd) = j + 1 /\ cmd[j + 1] = b[j + 1]
      /\ \A i \in 1..j : cmd[i] = b[i]
  BY <1>5, <1>4, AppendProperties
<1>7. \A i \in 1 .. j + 1 : cmd[i] = b[i]
  BY <1>6
<1>8. /\ cmd # <<>>
      /\ Len(cmd) <= Parameters(code) => Collects(fdc', cmd)
      /\ Len(cmd) > Parameters(code) => fdc' = Executed(cmd)
  BY <1>3, <1>4, WrittenByte
<1> HIDE DEF cmd
<1>9. code = 6
  BY <1>7
<1>10. Parameters(code) = 8
  BY <1>9 DEF Parameters, Transfers
<1>11. cmd = SubSeq(b, 1, j + 1)
  <2> DEFINE q == SubSeq(b, 1, j + 1)
  <2>1. /\ q \in Seq(Byte) /\ Len(q) = j + 1
        /\ \A i \in 1 .. j + 1 : q[i] = b[i]
    BY <1>1, <1>2
  <2> HIDE DEF q
  <2>2. cmd = q
    BY <1>6, <1>7, <2>1, SeqEqual
  <2> QED BY <2>2 DEF q
<1>12. j < 8 => Collects(fdc', SubSeq(b, 1, j + 1))
  BY <1>6, <1>8, <1>10, <1>11
<1>13. j = 8 => cmd = b
  <2>1. j = 8 => Len(cmd) = Len(b) /\ \A i \in 1..Len(cmd) : cmd[i] = b[i]
    BY <1>6, <1>7
  <2> QED BY <1>6, <2>1, SeqEqual
<1>14. ASSUME j = 8
       PROVE  fdc'.bytes = cmd /\ (fdc'.phase = "execute" \/ Pio(fdc'))
  <2>1. Len(cmd) > Parameters(cmd[1] % 32) /\ cmd[1] % 32 = 6
    BY <1>6, <1>9, <1>10, <1>14
  <2>2. fdc' = Executed(cmd)
    BY <1>8, <2>1
  <2> QED BY <1>3, <1>6, <1>8, <2>1, <2>2, ExecutedCommand
<1> QED BY <1>12, <1>13, <1>14

(* A byte is read: the head of a result.                                   *)
LEMMA TakenByte ==
  ASSUME Controller(fdc), fdc' = FdcTaken
  PROVE  /\ Controller(fdc') /\ fdc'.dor = fdc.dor /\ FdcBytes \subseteq Status
         /\ fdc.phase # "result" => fdc' = fdc
         /\ fdc.phase = "result" => FdcBytes = {fdc.result[1]}
         /\ Replies(fdc, 1) => Collects(fdc', <<>>)
         /\ \A n \in 2..7 : Replies(fdc, n) => Replies(fdc', n - 1)
<1>1. ASSUME fdc.phase = "result"
      PROVE  /\ Controller(fdc') /\ fdc'.dor = fdc.dor
             /\ FdcBytes = {fdc.result[1]} /\ FdcBytes \subseteq Status
             /\ Replies(fdc, 1) => Collects(fdc', <<>>)
             /\ \A n \in 2..7 : Replies(fdc, n) => Replies(fdc', n - 1)
  <2> DEFINE r == fdc.result
             t == Tail(r)
  <2>1. r \in Seq(Status) /\ r # <<>>
    BY <1>1 DEF Controller
  <2>2. Len(r) \in Nat /\ Len(r) >= 1 /\ r[1] \in Status /\ Head(r) = r[1]
    BY <2>1, EmptySeq, LenProperties, ElementOfSeq, HeadTailProperties
  <2>3. t \in Seq(Status) /\ Len(t) = Len(r) - 1
    BY <2>1, HeadTailProperties
  <2>4. t = <<>> <=> Len(r) = 1
    <3>1. t = <<>> <=> Len(t) = 0
      BY <2>3, EmptySeq
    <3> QED BY <2>2, <2>3, <3>1
  <2>5. FdcBytes = {r[1]}
    BY <1>1, <2>2 DEF FdcBytes
  <2>6. fdc' = [fdc EXCEPT !.result = t, !.phase = IF Len(r) = 1 THEN "command" ELSE "result"]
    BY <1>1 DEF FdcTaken
  <2> HIDE DEF r, t
  <2>7. /\ DOMAIN fdc' = DOMAIN fdc /\ fdc'.result = t
        /\ fdc'.phase = IF Len(r) = 1 THEN "command" ELSE "result"
        /\ fdc'.bytes = fdc.bytes /\ fdc'.seeking = fdc.seeking /\ fdc'.track = fdc.track
        /\ fdc'.sensei = fdc.sensei /\ fdc'.dor = fdc.dor
    BY <2>6 DEF Controller
  <2>8. Controller(fdc')
    BY <2>3, <2>4, <2>7 DEF Controller
  <2>9. Replies(fdc, 1) => Collects(fdc', <<>>)
    BY <2>7 DEF Replies, Collects, r
  <2>10. \A n \in 2..7 : Replies(fdc, n) => Replies(fdc', n - 1)
    BY <2>3, <2>7 DEF Replies, r
  <2> QED BY <2>2, <2>5, <2>7, <2>8, <2>9, <2>10 DEF r
<1>2. ASSUME fdc.phase # "result"
      PROVE  fdc' = fdc /\ FdcBytes \subseteq Status
  <2>1. fdc' = fdc
    BY <1>2 DEF FdcTaken
  <2>2. FdcBytes \subseteq [of : {Nothing}, v : PioBytes]
    BY <1>2 DEF FdcBytes, PioBytes
  <2>3. [of : {Nothing}, v : PioBytes] \subseteq Status
    BY DEF Status, Nothing, PioBytes, Byte
  <2> QED BY <2>1, <2>2, <2>3
<1>3. fdc.phase # "result" => ~Replies(fdc, 1) /\ \A n \in 2..7 : ~Replies(fdc, n)
  BY DEF Replies
<1> QED BY <1>1, <1>2, <1>3

(* What a step that leaves these four alone leaves.                        *)
Same(f, g) == f.phase = g.phase /\ f.bytes = g.bytes /\ f.result = g.result /\ f.ndma = g.ndma

(* The output register: a reset, its end, the motor.                       *)
LEMMA WrittenDor ==
  ASSUME Controller(fdc), NEW v \in {0, 12, 28}, fdc' = FdcDor(v)
  PROVE  /\ Controller(fdc') /\ fdc'.dor = v
         /\ v = 0 => Halted(fdc')
         /\ v # 0 /\ fdc.phase # "reset" => Same(fdc', fdc)
         /\ v # 0 /\ Halted(fdc) => Halted(fdc') /\ fdc'.phase = "starting"
<1>1. CASE v = 0
  <2>1. (v \div 4) % 2 = 0
    BY <1>1
  <2>2. fdc' = [fdc EXCEPT !.dor = v, !.phase = "reset", !.bytes = <<>>, !.result = <<>>,
                           !.seeking = Nothing, !.seekend = FALSE]
    BY <2>1 DEF FdcDor
  <2>3. /\ DOMAIN fdc' = DOMAIN fdc /\ fdc'.phase = "reset" /\ fdc'.bytes = <<>>
        /\ fdc'.result = <<>> /\ fdc'.seeking = Nothing /\ fdc'.dor = v
        /\ fdc'.track = fdc.track /\ fdc'.sensei = fdc.sensei
    BY <2>2 DEF Controller
  <2>4. Controller(fdc') /\ Halted(fdc')
    BY <2>3 DEF Controller, Halted
  <2> QED BY <1>1, <2>3, <2>4
<1>2. CASE v # 0
  <2>1. (v \div 4) % 2 # 0
    <3>1. (12 \div 4) % 2 = 1 /\ (28 \div 4) % 2 = 1
      OBVIOUS
    <3> QED BY <1>2, <3>1
  <2>2. /\ DOMAIN fdc' = DOMAIN fdc /\ fdc'.dor = v
        /\ fdc'.phase = IF fdc.phase = "reset" THEN "starting" ELSE fdc.phase
        /\ fdc'.bytes = fdc.bytes /\ fdc'.result = fdc.result /\ fdc'.seeking = fdc.seeking
        /\ fdc'.ndma = fdc.ndma /\ fdc'.track = fdc.track /\ fdc'.sensei = fdc.sensei
    BY <2>1 DEF FdcDor, Controller
  <2> QED BY <1>2, <2>2 DEF Controller, Same, Halted
<1> QED BY <1>1, <1>2

(* The controller's own steps.                                             *)
LEMMA ReadyController ==
  ASSUME Controller(fdc), FdcReady
  PROVE  /\ Controller(fdc') /\ fdc.phase = "starting" /\ fdc'.dor = fdc.dor /\ fdc'.ndma = fdc.ndma
         /\ Halted(fdc) => Collects(fdc', <<>>)
BY DEF FdcReady, Controller, Halted, Collects

(* A seek that ends leaves the bytes and the result as they are.           *)
LEMMA SeekDoneController ==
  ASSUME Controller(fdc), FdcSeekDone
  PROVE  Controller(fdc') /\ Same(fdc', fdc) /\ fdc'.dor = fdc.dor
BY DEF FdcSeekDone, Controller, Same

(* A transfer that ends.                                                   *)
LEMMA EndedTransfer ==
  ASSUME Controller(fdc), NEW f, f = [fdc EXCEPT !.bytes = <<>>],
         NEW of \in Int, NEW values \in Seq(Byte), Len(values) > 0, fdc' = Replied(f, of, values)
  PROVE  /\ Controller(fdc') /\ Replies(fdc', Len(values)) /\ fdc'.result[1].v = values[1]
         /\ fdc'.dor = fdc.dor /\ fdc'.ndma = fdc.ndma
<1>1. /\ DOMAIN f = DOMAIN fdc /\ f.bytes = <<>> /\ f.track = fdc.track /\ f.sensei = fdc.sensei
      /\ f.seeking = fdc.seeking /\ f.dor = fdc.dor /\ f.ndma = fdc.ndma
  BY DEF Controller
<1>2. /\ DOMAIN fdc' = DOMAIN f /\ fdc'.phase = "result"
      /\ fdc'.result \in Seq(Status) /\ Len(fdc'.result) = Len(values) /\ fdc'.result # <<>>
      /\ fdc'.result[1].v = values[1]
      /\ \A x \in DOMAIN f \ {"phase", "result"} : fdc'[x] = f[x]
  BY <1>1, RepliedResult
<1>3. /\ fdc'.bytes = <<>> /\ fdc'.track = fdc.track /\ fdc'.sensei = fdc.sensei
      /\ fdc'.seeking = fdc.seeking /\ fdc'.dor = fdc.dor /\ fdc'.ndma = fdc.ndma
  BY <1>1, <1>2 DEF Controller
<1>4. fdc'.bytes \in Seq(Byte) /\ DOMAIN fdc' = DOMAIN fdc
  <2>1. DOMAIN fdc' = DOMAIN fdc
    BY <1>1, <1>2, Zenon
  <2>2. fdc'.bytes \in Seq(Byte)
    <3>1. <<>> \in Seq(Byte)
      OBVIOUS
    <3> QED BY <1>3, <3>1, Zenon
  <2> QED BY <2>1, <2>2
<1>5. Controller(fdc')
  BY <1>2, <1>3, <1>4 DEF Controller
<1> QED BY <1>2, <1>3, <1>5 DEF Replies

-----------------------------------------------------------------------------
(* What a pong may find of main's commands, and what its own make of it.   *)

InStep(f) == Collects(f, <<>>) \/ Pio(f)

(* The bytes of READ TRACK so far: its code is the last byte of SPECIFY,   *)
(* its parameters are the bytes main sent after that.                      *)
TrackBytes(m) == IF m \in 10..13 THEN 1 ELSE IF m \in 14..15 THEN 2 ELSE IF m \in 16..21 THEN 3 ELSE 4

(* What main has left in the controller at its place m.                    *)
Left(m, f) ==
  \/ InStep(f)
  \/ m = 2 /\ Halted(f)
  \/ m \in 3..4 /\ Halted(f) /\ f.phase = "starting"
  \/ m \in 6..7 /\ Collects(f, <<3>>)
  \/ m \in 8..9 /\ Collects(f, <<3, 223>>)
  \/ m \in 14..15 /\ Collects(f, <<7>>)
  \/ m \in (8..17) \cup (22..24) /\ Replies(f, 1)
  \/ m >= 10 /\ ReadsTrack(f, TrackBytes(m))

(* The remains of a command of main's: its answer, or READ TRACK with n    *)
(* bytes of pong's.  Only the first read after the command meets them.     *)
Lost(lba, f) == lba = 0 /\ (Collects(f, <<>>) \/ Replies(f, 1))
Stale(lba, m, f, n) == lba = 0 /\ m >= 10 /\ ReadsTrack(f, TrackBytes(m) + n)

(* After i bytes of the answer to a transfer: the sector is in the buffer, *)
(* or the first byte says that the transfer failed.                        *)
Answered(lba, f, got, sector, i) ==
  /\ IF i < 7 THEN Replies(f, 7 - i) ELSE Collects(f, <<>>)
  /\ sector = lba \/ IF i = 0 THEN f.result[1].v = 64 ELSE got[1].v = 64

(* The controller as the read of sector lba finds it at its place n: in    *)
(* step with the read, or with remains of main that the read drags along   *)
(* and that end in a failure of the read.                                  *)
SeekPath(n, lba, m, f) ==
  LET chs == LbaToChs(lba)
  IN  /\ n \in 1..4 => IF lba = 0 THEN Left(m, f) ELSE InStep(f)
      /\ n \in 5..6 => \/ Pio(f) \/ Collects(f, <<15>>)
                       \/ lba = 0 /\ Collects(f, <<3, 15>>)
                       \/ Lost(lba, f) \/ Stale(lba, m, f, 1)
      /\ n \in 7..8 => \/ Pio(f) \/ Collects(f, <<15, chs.head * 4>>)
                       \/ Lost(lba, f) \/ Stale(lba, m, f, 2)
      /\ n \in 9..11 => InStep(f) \/ Lost(lba, f) \/ Stale(lba, m, f, 3)
      /\ n \in 12..13 => Pio(f) \/ Replies(f, 1) \/ Replies(f, 2) \/ Stale(lba, m, f, 4)
      /\ n = 14 => InStep(f) \/ Replies(f, 1) \/ Stale(lba, m, f, 4)
      /\ n \in 15..21 => InStep(f) \/ Stale(lba, m, f, 4)

ReadPath(n, lba, m, f, got, sector) ==
  LET bytes == ReadBytes(LbaToChs(lba))
      sent == (n - 21) \div 2
  IN  /\ n \in 22..39 =>
           \/ Pio(f)
           \/ n < 39 /\ Collects(f, SubSeq(bytes, 1, sent))
           \/ n = 39 /\ f.phase = "execute" /\ f.bytes = bytes
           \/ TrackBytes(m) + 4 + sent <= 8 /\ Stale(lba, m, f, 4 + sent)
           \/ n % 2 = 1 /\ TrackTransfer(f)
           \/ Answered(lba, f, got, sector, 0)
      /\ n = 40 => Pio(f) \/ Answered(lba, f, got, sector, 0)
      /\ n \in 41..48 => Pio(f) \/ Answered(lba, f, got, sector, n - 41)

Path(n, lba, m, f, got, sector) ==
  SeekPath(n, lba, m, f) /\ ReadPath(n, lba, m, f, got, sector)

-----------------------------------------------------------------------------
(* The steps of a read along its path.                                     *)

(* READ TRACK has at most four bytes of main's.                            *)
LEMMA TrackRange ==
  ASSUME NEW m \in 1..24
  PROVE  TrackBytes(m) \in 1..4
BY DEF TrackBytes

(* The bytes of SEEK and of SENSE INTERRUPT.                               *)
LEMMA SeekSends ==
  ASSUME Controller(fdc), Rqm, NEW lba \in 0 .. Sectors - 1, NEW m \in 1..24, NEW got, NEW sector,
         NEW n \in {4, 6, 8, 11}, SeekPath(n, lba, m, fdc),
         fdc' = FdcWritten(Sent(n, LbaToChs(lba)))
  PROVE  SeekPath(n + 1, lba, m, fdc')
<1> DEFINE chs == LbaToChs(lba)
           byte == Sent(n, chs)
           K == TrackBytes(m)
<1>1. byte \in Byte
  <2>1. n \in Sends
    BY DEF Sends
  <2> QED BY <2>1, SectorBytes
<1>2. K \in 1..4
  BY TrackRange
<1>3. chs.head * 4 \in {0, 4} /\ (lba = 0 => chs.head * 4 = 0 /\ chs.cyl = 0) /\ chs.cyl \in Byte
  <2>1. chs.head * 4 \in {0, 4} /\ chs.cyl \in Byte
    BY SectorBytes
  <2>2. lba = 0 => chs.cyl = 0 /\ chs.head = 0
    BY SectorPlace
  <2> QED BY <2>1, <2>2
<1>4. /\ n = 4 => byte = 15
      /\ n = 6 => byte = chs.head * 4
      /\ n = 8 => byte = chs.cyl
      /\ n = 11 => byte = 8
  BY DEF Sent
<1> HIDE DEF byte, K, chs
<1>5. fdc' = FdcWritten(byte)
  BY DEF byte, chs
<1>6. fdc.phase \in {"command", "result", "pio"}
  BY DEF Rqm
<1>7. fdc.phase # "command" => fdc' = fdc
  BY <1>1, <1>5, WrittenByte
<1>8. Pio(fdc) => Pio(fdc')
  BY <1>7 DEF Pio
<1>9. \A k \in {1, 2} : Replies(fdc, k) => Replies(fdc', k)
  BY <1>7 DEF Replies
<1>10. ASSUME NEW k \in 0..3, ReadsTrack(fdc, K + k)
       PROVE  ReadsTrack(fdc', K + k + 1)
  <2>1. K + k \in 1..8 /\ K + k < 8
    BY <1>2
  <2> QED BY <1>1, <1>5, <1>10, <2>1, TrackByte
<1>11. ~Halted(fdc)
  BY <1>6 DEF Halted
<1>12. byte = 0 /\ Collects(fdc, <<>>) => Replies(fdc', 1)
  BY <1>1, <1>5, FirstByte
<1>13. CASE n = 4
  <2>1. byte = 15
    BY <1>4, <1>13
  <2>2. IF lba = 0 THEN Left(m, fdc) ELSE InStep(fdc)
    BY <1>13 DEF SeekPath
  <2>3. Collects(fdc, <<>>) => Collects(fdc', <<15>>)
    BY <1>1, <1>5, <2>1, FirstByte
  <2>4. Collects(fdc, <<3>>) => Collects(fdc', <<3, 15>>)
    BY <1>1, <1>5, <2>1, SecondByte
  <2>5. Collects(fdc, <<3, 223>>) => Collects(fdc', <<>>)
    BY <1>1, <1>5, ThirdByte
  <2>6. Collects(fdc, <<7>>) => Collects(fdc', <<>>)
    BY <1>1, <1>5, SecondByte
  <2>7. ReadsTrack(fdc, K) => ReadsTrack(fdc', K + 1)
    <3>1. K + 0 = K
      BY <1>2
    <3>2. 0 \in 0..3
      OBVIOUS
    <3>3. ReadsTrack(fdc, K + 0) => ReadsTrack(fdc', K + 0 + 1)
      BY <1>10, <3>2
    <3> QED BY <3>1, <3>3
  <2>8. \/ Pio(fdc') \/ Collects(fdc', <<15>>)
        \/ lba = 0 /\ Collects(fdc', <<3, 15>>)
        \/ Lost(lba, fdc') \/ Stale(lba, m, fdc', 1)
    BY <1>8, <1>9, <1>11, <2>2, <2>3, <2>4, <2>5, <2>6, <2>7 DEF Left, InStep, Lost, Stale, K
  <2> QED BY <1>13, <2>8 DEF SeekPath
<1>14. CASE n = 6
  <2>1. byte = chs.head * 4 /\ (lba = 0 => byte = 0)
    BY <1>3, <1>4, <1>14
  <2>2. \/ Pio(fdc) \/ Collects(fdc, <<15>>)
        \/ lba = 0 /\ Collects(fdc, <<3, 15>>)
        \/ Lost(lba, fdc) \/ Stale(lba, m, fdc, 1)
    BY <1>14 DEF SeekPath
  <2>3. Collects(fdc, <<15>>) => Collects(fdc', <<15, chs.head * 4>>)
    BY <1>1, <1>5, <2>1, SecondByte
  <2>4. Collects(fdc, <<3, 15>>) => Collects(fdc', <<>>)
    BY <1>1, <1>5, ThirdByte
  <2>5. lba = 0 /\ Collects(fdc, <<>>) => Replies(fdc', 1)
    BY <1>12, <2>1
  <2>6. Stale(lba, m, fdc, 1) => Stale(lba, m, fdc', 2)
    BY <1>2, <1>10 DEF Stale, K
  <2>7. \/ Pio(fdc') \/ Collects(fdc', <<15, chs.head * 4>>)
        \/ Lost(lba, fdc') \/ Stale(lba, m, fdc', 2)
    BY <1>8, <1>9, <2>2, <2>3, <2>4, <2>5, <2>6 DEF Lost
  <2> QED BY <1>14, <2>7 DEF SeekPath, chs
<1>15. CASE n = 8
  <2>1. byte = chs.cyl /\ (lba = 0 => byte = 0)
    BY <1>3, <1>4, <1>15
  <2>2. \/ Pio(fdc) \/ Collects(fdc, <<15, chs.head * 4>>)
        \/ Lost(lba, fdc) \/ Stale(lba, m, fdc, 2)
    BY <1>15 DEF SeekPath, chs
  <2>3. Collects(fdc, <<15, chs.head * 4>>) => Collects(fdc', <<>>)
    BY <1>1, <1>5, ThirdByte
  <2>4. lba = 0 /\ Collects(fdc, <<>>) => Replies(fdc', 1)
    BY <1>12, <2>1
  <2>5. Stale(lba, m, fdc, 2) => Stale(lba, m, fdc', 3)
    BY <1>2, <1>10 DEF Stale, K
  <2>6. InStep(fdc') \/ Lost(lba, fdc') \/ Stale(lba, m, fdc', 3)
    BY <1>8, <1>9, <2>2, <2>3, <2>4, <2>5 DEF Lost, InStep
  <2> QED BY <1>15, <2>6 DEF SeekPath
<1>16. CASE n = 11
  <2>1. InStep(fdc) \/ Lost(lba, fdc) \/ Stale(lba, m, fdc, 3)
    BY <1>16 DEF SeekPath
  <2>2. Collects(fdc, <<>>) => Replies(fdc', 1) \/ Replies(fdc', 2)
    BY <1>1, <1>4, <1>5, <1>16, FirstByte
  <2>3. Stale(lba, m, fdc, 3) => Stale(lba, m, fdc', 4)
    BY <1>2, <1>10 DEF Stale, K
  <2>4. Pio(fdc') \/ Replies(fdc', 1) \/ Replies(fdc', 2) \/ Stale(lba, m, fdc', 4)
    BY <1>8, <1>9, <2>1, <2>2, <2>3 DEF Lost, InStep
  <2> QED BY <1>16, <2>4 DEF SeekPath
<1> QED BY <1>13, <1>14, <1>15, <1>16

(* The bytes of READ DATA.                                                 *)
LEMMA ReadSends ==
  ASSUME Controller(fdc), Rqm, NEW lba \in 0 .. Sectors - 1, NEW m \in 1..24, NEW got, NEW sector,
         NEW i \in 1..9, ReadPath(20 + 2 * i, lba, m, fdc, got, sector),
         fdc' = FdcWritten(ReadBytes(LbaToChs(lba))[i])
  PROVE  ReadPath(21 + 2 * i, lba, m, fdc', got, sector)
<1> DEFINE b == ReadBytes(LbaToChs(lba))
           K == TrackBytes(m)
           n == 20 + 2 * i
<1>1. b \in Seq(Byte) /\ Len(b) = 9
  BY SectorBytes
<1>2. b[1] = 198
  BY DEF ReadBytes
<1>3. K \in 1..4
  BY TrackRange
<1> HIDE DEF b, K
<1>4. b[i] \in Byte /\ fdc' = FdcWritten(b[i])
  <2>1. \A k \in 1..9 : b[k] \in Byte
    BY <1>1, Elements
  <2> QED BY <2>1 DEF b
<1>5. fdc.phase \in {"command", "result", "pio"}
  BY DEF Rqm
<1>6. fdc.phase # "command" => fdc' = fdc
  BY <1>4, WrittenByte
<1>7. /\ n \in 22..39 /\ n # 39 /\ n < 39 /\ (n - 21) \div 2 = i - 1 /\ n % 2 = 0
      /\ n + 1 \in 22..39 /\ ((n + 1) - 21) \div 2 = i /\ (n + 1) % 2 = 1
      /\ (n + 1 = 39 <=> i = 9) /\ (n + 1 < 39 <=> i < 9)
  OBVIOUS
<1>8. \/ Pio(fdc)
      \/ Collects(fdc, SubSeq(b, 1, i - 1))
      \/ K + 4 + (i - 1) <= 8 /\ Stale(lba, m, fdc, 4 + (i - 1))
      \/ Answered(lba, fdc, got, sector, 0)
  BY <1>7 DEF ReadPath, b, K
<1>9. Pio(fdc) => Pio(fdc')
  BY <1>6 DEF Pio
<1>10. Answered(lba, fdc, got, sector, 0) => Answered(lba, fdc', got, sector, 0)
  BY <1>6 DEF Answered, Replies
<1>11. ASSUME Collects(fdc, SubSeq(b, 1, i - 1))
       PROVE  /\ i < 9 => Collects(fdc', SubSeq(b, 1, i))
              /\ i = 9 => fdc'.bytes = b /\ (fdc'.phase = "execute" \/ Pio(fdc'))
  <2>1. i - 1 \in 0..8 /\ (i - 1) + 1 = i /\ (i - 1 < 8 <=> i < 9) /\ (i - 1 = 8 <=> i = 9)
    OBVIOUS
  <2> DEFINE j == i - 1
  <2> HIDE DEF j
  <2>2. j \in 0..8 /\ fdc' = FdcWritten(b[j + 1]) /\ Collects(fdc, SubSeq(b, 1, j))
    BY <1>4, <1>11, <2>1 DEF j
  <2>3. /\ j < 8 => Collects(fdc', SubSeq(b, 1, j + 1))
        /\ j = 8 => fdc'.bytes = b /\ (fdc'.phase = "execute" \/ Pio(fdc'))
    BY <1>1, <1>2, <2>2, ReadByte
  <2> QED BY <2>1, <2>3 DEF j
<1>12. ASSUME K + 4 + (i - 1) <= 8, Stale(lba, m, fdc, 4 + (i - 1))
       PROVE  \/ K + 4 + i <= 8 /\ Stale(lba, m, fdc', 4 + i)
              \/ TrackTransfer(fdc') \/ Pio(fdc')
  <2> DEFINE t == K + (4 + (i - 1))
  <2>1. lba = 0 /\ m >= 10 /\ ReadsTrack(fdc, t)
    BY <1>12 DEF Stale, K
  <2>2. t \in 1..8 /\ t + 1 = K + (4 + i) /\ (t < 8 => K + 4 + i <= 8)
    BY <1>3, <1>12
  <2> HIDE DEF t
  <2>3. /\ t < 8 => ReadsTrack(fdc', t + 1)
        /\ t = 8 => TrackTransfer(fdc') \/ Pio(fdc')
    BY <1>4, <2>1, <2>2, TrackByte
  <2> QED BY <2>1, <2>2, <2>3 DEF Stale, K
<1>13. \/ Pio(fdc')
       \/ n + 1 < 39 /\ Collects(fdc', SubSeq(b, 1, i))
       \/ n + 1 = 39 /\ fdc'.phase = "execute" /\ fdc'.bytes = b
       \/ K + 4 + i <= 8 /\ Stale(lba, m, fdc', 4 + i)
       \/ TrackTransfer(fdc')
       \/ Answered(lba, fdc', got, sector, 0)
  BY <1>7, <1>8, <1>9, <1>10, <1>11, <1>12
<1>14. n + 1 = 21 + 2 * i /\ n + 1 # 40 /\ n + 1 \notin 41..48
  OBVIOUS
<1> HIDE DEF n
<1>15. ReadPath(n + 1, lba, m, fdc', got, sector)
  BY <1>7, <1>13, <1>14 DEF ReadPath, b, K
<1> QED BY <1>14, <1>15

(* The waits.                                                              *)
LEMMA PathWaits ==
  ASSUME Controller(fdc), Rqm, NEW lba \in 0 .. Sectors - 1, NEW m \in 1..24, NEW got, NEW sector,
         NEW n \in Awaits, Path(n, lba, m, fdc, got, sector)
  PROVE  Path(n + 1, lba, m, fdc, got, sector)
<1>1. fdc.phase \in {"command", "result", "pio"}
  BY DEF Rqm
<1>2. CASE n \in {5, 7, 9, 12}
  BY <1>2 DEF Path, SeekPath, ReadPath
<1>3. ASSUME NEW i \in 1..9, n = 21 + 2 * i
      PROVE  Path(n + 1, lba, m, fdc, got, sector)
  <2> DEFINE b == ReadBytes(LbaToChs(lba))
             K == TrackBytes(m)
  <2>1. K \in 1..4
    BY TrackRange
  <2> HIDE DEF b, K
  <2>2. n \in 22..39 /\ (n - 21) \div 2 = i /\ ((n + 1) - 21) \div 2 = i
        /\ (n < 39 <=> i < 9) /\ (n = 39 <=> i = 9)
    BY <1>3
  <2>3. ~TrackTransfer(fdc) /\ fdc.phase # "execute"
    BY <1>1 DEF TrackTransfer
  <2>4. \/ Pio(fdc)
        \/ n < 39 /\ Collects(fdc, SubSeq(b, 1, i))
        \/ K + 4 + i <= 8 /\ Stale(lba, m, fdc, 4 + i)
        \/ Answered(lba, fdc, got, sector, 0)
    BY <2>2, <2>3 DEF Path, ReadPath, b, K
  <2>5. CASE i < 9
    <3>1. n + 1 \in 22..39 /\ n + 1 < 39 /\ n + 1 \notin 1..21 /\ n + 1 \notin 40..48
      BY <1>3, <2>5
    <3>2. SeekPath(n + 1, lba, m, fdc)
      BY <3>1 DEF SeekPath
    <3>3. ReadPath(n + 1, lba, m, fdc, got, sector)
      BY <2>2, <2>4, <3>1 DEF ReadPath, b, K
    <3> QED BY <3>2, <3>3 DEF Path
  <2>6. CASE i = 9
    <3>1. n + 1 = 40 /\ ~(K + 4 + i <= 8) /\ ~(n < 39)
      BY <1>3, <2>1, <2>6
    <3>2. Pio(fdc) \/ Answered(lba, fdc, got, sector, 0)
      BY <2>4, <3>1
    <3> QED BY <3>1, <3>2 DEF Path, SeekPath, ReadPath
  <2> QED BY <2>5, <2>6
<1> QED BY <1>2, <1>3 DEF Awaits

(* The reads of SENSE INTERRUPT's answer, and of READ DATA's.              *)
LEMMA SeekReads ==
  ASSUME Controller(fdc), Rqm, NEW lba, NEW m \in 1..24, NEW n \in {13, 14},
         SeekPath(n, lba, m, fdc), fdc' = FdcTaken
  PROVE  SeekPath(n + 1, lba, m, fdc')
<1>1. fdc.phase # "result" => fdc' = fdc
  BY TakenByte
<1>2. Replies(fdc, 1) => Collects(fdc', <<>>)
  BY TakenByte
<1>3. Replies(fdc, 2) => Replies(fdc', 1)
  <2>1. 2 \in 2..7 /\ 2 - 1 = 1
    OBVIOUS
  <2>2. \A k \in 2..7 : Replies(fdc, k) => Replies(fdc', k - 1)
    BY TakenByte
  <2> QED BY <2>1, <2>2
<1>4. Pio(fdc) => Pio(fdc')
  BY <1>1 DEF Pio
<1>5. Collects(fdc, <<>>) => Collects(fdc', <<>>)
  BY <1>1 DEF Collects
<1>6. Stale(lba, m, fdc, 4) => Stale(lba, m, fdc', 4)
  BY <1>1 DEF Stale, ReadsTrack
<1>7. CASE n = 13
  <2>1. InStep(fdc') \/ Replies(fdc', 1) \/ Stale(lba, m, fdc', 4)
    BY <1>2, <1>3, <1>4, <1>6, <1>7 DEF SeekPath, InStep
  <2> QED BY <1>7, <2>1 DEF SeekPath
<1>8. CASE n = 14
  <2>1. InStep(fdc') \/ Stale(lba, m, fdc', 4)
    BY <1>2, <1>4, <1>5, <1>6, <1>8 DEF SeekPath, InStep
  <2> QED BY <1>8, <2>1 DEF SeekPath
<1> QED BY <1>7, <1>8

(* The seven bytes of the answer to READ DATA, byte by byte.               *)
LEMMA StatusReads ==
  ASSUME Controller(fdc), Rqm, NEW lba, NEW m \in 1..24, NEW got \in Seq(Status), NEW sector,
         NEW i \in 0..6, Len(got) = i, ReadPath(41 + i, lba, m, fdc, got, sector),
         fdc' = FdcTaken, NEW byte \in FdcBytes
  PROVE  ReadPath(42 + i, lba, m, fdc', Append(got, byte), sector)
<1> DEFINE got2 == Append(got, byte)
<1>1. byte \in Status /\ (fdc.phase = "result" => byte = fdc.result[1])
  BY TakenByte
<1>2. /\ i = 0 => got2[1] = byte
      /\ i > 0 => got2[1] = got[1]
  <2>1. /\ got2[Len(got) + 1] = byte
        /\ \A k \in 1..Len(got) : got2[k] = got[k]
    BY <1>1, AppendProperties
  <2> QED BY <2>1
<1> HIDE DEF got2
<1>3. Pio(fdc) => Pio(fdc')
  <2>1. fdc.phase # "result" => fdc' = fdc
    BY TakenByte
  <2> QED BY <2>1 DEF Pio
<1>4. ASSUME Answered(lba, fdc, got, sector, i)
      PROVE  Answered(lba, fdc', got2, sector, i + 1)
  <2>1. Replies(fdc, 7 - i) /\ fdc.phase = "result"
    BY <1>4 DEF Answered, Replies
  <2>2. IF i + 1 < 7 THEN Replies(fdc', 7 - (i + 1)) ELSE Collects(fdc', <<>>)
    <3>1. CASE i = 6
      <4>1. Replies(fdc, 1)
        BY <2>1, <3>1
      <4>2. Collects(fdc', <<>>)
        BY <4>1, TakenByte
      <4> QED BY <3>1, <4>2
    <3>2. CASE i < 6
      <4>1. 7 - i \in 2..7 /\ (7 - i) - 1 = 7 - (i + 1) /\ i + 1 < 7
        BY <3>2
      <4>2. \A k \in 2..7 : Replies(fdc, k) => Replies(fdc', k - 1)
        BY TakenByte
      <4>3. Replies(fdc', (7 - i) - 1)
        BY <2>1, <4>1, <4>2
      <4> QED BY <4>1, <4>3
    <3> QED BY <3>1, <3>2
  <2>3. sector = lba \/ got2[1].v = 64
    BY <1>1, <1>2, <1>4, <2>1 DEF Answered
  <2> QED BY <2>2, <2>3 DEF Answered
<1>5. 41 + i \in 41..48 /\ (41 + i) - 41 = i /\ 42 + i \in 41..48 /\ (42 + i) - 41 = i + 1
      /\ 42 + i \notin 22..40
  OBVIOUS
<1>6. Pio(fdc') \/ Answered(lba, fdc', got2, sector, i + 1)
  BY <1>3, <1>4, <1>5 DEF ReadPath
<1>7. ReadPath(42 + i, lba, m, fdc', got2, sector)
  BY <1>5, <1>6 DEF ReadPath
<1> QED BY <1>7 DEF got2

(* The operations that leave the controller's commands alone.              *)
LEMMA PathRests ==
  ASSUME Controller(fdc), NEW lba \in 0 .. Sectors - 1, NEW m \in 1..24, NEW got, NEW sector,
         NEW n \in {1, 2, 3, 10, 15, 16, 17, 18, 19, 20, 21, 40},
         Path(n, lba, m, fdc, got, sector)
  PROVE  /\ Path(n + 1, lba, m, fdc, got, sector)
         /\ n = 15 => Path(18, lba, m, fdc, <<>>, sector) /\ Path(16, lba, m, fdc, <<>>, sector)
<1>1. CASE n \notin {21, 40}
  BY <1>1 DEF Path, SeekPath, ReadPath
<1>2. CASE n = 40
  <2>1. Pio(fdc) \/ Answered(lba, fdc, got, sector, 0)
    BY <1>2 DEF Path, ReadPath
  <2>2. 40 + 1 \in 41..48 /\ (40 + 1) - 41 = 0 /\ 40 + 1 \notin 1..40
    OBVIOUS
  <2> QED BY <1>2, <2>1, <2>2 DEF Path, SeekPath, ReadPath
<1>3. CASE n = 21
  <2> DEFINE b == ReadBytes(LbaToChs(lba))
             K == TrackBytes(m)
  <2>1. K \in 1..4 /\ b \in Seq(Byte) /\ Len(b) = 9
    BY TrackRange, SectorBytes
  <2> HIDE DEF b, K
  <2>2. SubSeq(b, 1, 0) = <<>>
    <3>1. SubSeq(b, 1, 0) \in Seq(Byte) /\ Len(SubSeq(b, 1, 0)) = 0
      BY <2>1, Elements
    <3> QED BY <3>1, EmptySeq
  <2>3. Collects(fdc, <<>>) \/ Pio(fdc) \/ Stale(lba, m, fdc, 4)
    BY <1>3 DEF Path, SeekPath, InStep
  <2>4. /\ 21 + 1 \in 22..39 /\ ((21 + 1) - 21) \div 2 = 0 /\ 21 + 1 < 39 /\ 21 + 1 \notin 1..21
        /\ 21 + 1 \notin 40..48 /\ K + 4 + 0 <= 8 /\ 4 + 0 = 4
    BY <2>1
  <2>5. \/ Pio(fdc) \/ Collects(fdc, SubSeq(b, 1, 0))
        \/ K + 4 + 0 <= 8 /\ Stale(lba, m, fdc, 4 + 0)
    BY <2>2, <2>3, <2>4, ZenonT(30)
  <2>6. ReadPath(21 + 1, lba, m, fdc, got, sector)
    BY <2>4, <2>5 DEF ReadPath, b, K
  <2>7. SeekPath(21 + 1, lba, m, fdc)
    BY <2>4 DEF SeekPath
  <2> QED BY <1>3, <2>6, <2>7 DEF Path
<1> QED BY <1>1, <1>2, <1>3

(* A read's path depends on the phase, the bytes and the answers only.     *)
LEMMA SamePath ==
  ASSUME NEW f, NEW g, Same(g, f), NEW lba, NEW m, NEW got, NEW sector, NEW n
  PROVE  /\ Left(m, f) => Left(m, g)
         /\ Path(n, lba, m, f, got, sector) => Path(n, lba, m, g, got, sector)
<1>1. /\ \A b : Collects(f, b) <=> Collects(g, b)
      /\ \A k : Replies(f, k) <=> Replies(g, k)
      /\ \A k : ReadsTrack(f, k) <=> ReadsTrack(g, k)
      /\ TrackTransfer(f) <=> TrackTransfer(g)
      /\ Pio(f) <=> Pio(g)
      /\ Halted(f) <=> Halted(g)
      /\ f.phase = g.phase /\ f.bytes = g.bytes /\ f.result = g.result
  BY DEF Same, Collects, Replies, ReadsTrack, TrackTransfer, Pio, Halted
<1>2. InStep(f) <=> InStep(g)
  BY <1>1 DEF InStep
<1>3. Left(m, f) => Left(m, g)
  BY <1>1, <1>2 DEF Left
<1>4. Lost(lba, f) <=> Lost(lba, g)
  BY <1>1 DEF Lost
<1>5. \A k : Stale(lba, m, f, k) <=> Stale(lba, m, g, k)
  BY <1>1 DEF Stale
<1>6. \A i : Answered(lba, f, got, sector, i) <=> Answered(lba, g, got, sector, i)
  BY <1>1 DEF Answered
<1>7. SeekPath(n, lba, m, f) => SeekPath(n, lba, m, g)
  BY <1>1, <1>2, <1>3, <1>4, <1>5, Zenon DEF SeekPath
<1>8. ReadPath(n, lba, m, f, got, sector) => ReadPath(n, lba, m, g, got, sector)
  BY <1>1, <1>5, <1>6, Zenon DEF ReadPath
<1> QED BY <1>3, <1>7, <1>8 DEF Path

(* The motor's bit, written while the controller may be in its reset.      *)
LEMMA PathMotor ==
  ASSUME Controller(fdc), NEW lba, NEW m \in 1..24, NEW got, NEW sector,
         NEW n \in {2, 17, 19}, NEW v \in {12, 28}, fdc' = FdcDor(v)
  PROVE  /\ Left(m, fdc) => Left(m, fdc')
         /\ Path(n, lba, m, fdc, got, sector) => Path(n, lba, m, fdc', got, sector)
<1>1. CASE fdc.phase # "reset"
  <2>1. Same(fdc', fdc)
    BY <1>1, WrittenDor
  <2> QED BY <2>1, SamePath
<1>2. CASE fdc.phase = "reset"
  <2>1. Halted(fdc) => Halted(fdc') /\ fdc'.phase = "starting"
    BY WrittenDor
  <2>2. ~InStep(fdc) /\ (\A k : ~Replies(fdc, k)) /\ (\A k : ~ReadsTrack(fdc, k)) /\ \A b : ~Collects(fdc, b)
    BY <1>2 DEF InStep, Pio, Collects, Replies, ReadsTrack
  <2>3. Left(m, fdc) => Left(m, fdc')
    BY <2>1, <2>2 DEF Left
  <2>4. SeekPath(n, lba, m, fdc) => n = 2 /\ lba = 0 /\ Left(m, fdc)
    BY <2>2 DEF SeekPath, Stale
  <2>5. Left(m, fdc') /\ lba = 0 /\ n = 2 => Path(n, lba, m, fdc', got, sector)
    BY DEF Path, SeekPath, ReadPath
  <2> QED BY <2>3, <2>4, <2>5 DEF Path
<1> QED BY <1>1, <1>2

(* The controller comes out of its reset.                                  *)
LEMMA PathReady ==
  ASSUME Controller(fdc), NEW lba, NEW m \in 1..24, NEW got, NEW sector, NEW n \in 1..48, FdcReady
  PROVE  /\ Left(m, fdc) => Left(m, fdc')
         /\ Path(n, lba, m, fdc, got, sector) => Path(n, lba, m, fdc', got, sector)
<1>1. fdc.phase = "starting" /\ (Halted(fdc) => Collects(fdc', <<>>))
  BY ReadyController
<1>2. /\ ~InStep(fdc) /\ (\A k : ~Replies(fdc, k)) /\ (\A k : ~ReadsTrack(fdc, k))
      /\ (\A b : ~Collects(fdc, b)) /\ ~Pio(fdc) /\ ~TrackTransfer(fdc)
  BY <1>1 DEF InStep, Pio, Collects, Replies, ReadsTrack, TrackTransfer
<1>3. Left(m, fdc) => InStep(fdc')
  BY <1>1, <1>2 DEF Left, InStep
<1>4. ASSUME Path(n, lba, m, fdc, got, sector)
      PROVE  n \in 1..4 /\ lba = 0 /\ Left(m, fdc)
  <2>1. (\A i \in Nat : ~Answered(lba, fdc, got, sector, i)) /\ (\A k : ~Stale(lba, m, fdc, k)) /\ ~Lost(lba, fdc)
    BY <1>2 DEF Answered, Stale, Lost
  <2>2. n \notin 22..48
    <3>1. n \in 41..48 => n - 41 \in Nat
      OBVIOUS
    <3> QED BY <1>1, <1>2, <1>4, <2>1, <3>1 DEF Path, ReadPath
  <2>3. n \notin 5..21
    BY <1>1, <1>2, <1>4, <2>1 DEF Path, SeekPath
  <2>4. n \in 1..4
    BY <2>2, <2>3
  <2> QED BY <1>2, <1>4, <2>4 DEF Path, SeekPath
<1>5. n \in 1..4 /\ lba = 0 /\ Left(m, fdc') => Path(n, lba, m, fdc', got, sector)
  BY DEF Path, SeekPath, ReadPath
<1> QED BY <1>3, <1>4, <1>5 DEF Left

(* A transfer is under way only where READ DATA is sent.                   *)
LEMMA TransferPlace ==
  ASSUME fdc.phase = "execute", NEW lba, NEW m \in 1..24, NEW got, NEW sector, NEW n \in 1..48
  PROVE  /\ ~Left(m, fdc)
         /\ Path(n, lba, m, fdc, got, sector) =>
              /\ n \in 22..39
              /\ \/ TrackTransfer(fdc) /\ n % 2 = 1
                 \/ n = 39 /\ fdc.bytes = ReadBytes(LbaToChs(lba))
<1>1. /\ ~InStep(fdc) /\ (\A k : ~Replies(fdc, k)) /\ (\A k : ~ReadsTrack(fdc, k))
      /\ (\A b : ~Collects(fdc, b)) /\ ~Pio(fdc) /\ ~Halted(fdc)
  BY DEF InStep, Pio, Collects, Replies, ReadsTrack, Halted
<1>2. (\A i \in Nat : ~Answered(lba, fdc, got, sector, i)) /\ (\A k : ~Stale(lba, m, fdc, k)) /\ ~Lost(lba, fdc)
  BY <1>1 DEF Answered, Stale, Lost
<1>3. ~Left(m, fdc)
  BY <1>1 DEF Left
<1>4. ASSUME Path(n, lba, m, fdc, got, sector)
      PROVE  /\ n \in 22..39
             /\ \/ TrackTransfer(fdc) /\ n % 2 = 1
                \/ n = 39 /\ fdc.bytes = ReadBytes(LbaToChs(lba))
  <2>1. n \notin 40..48
    <3>1. n \in 41..48 => n - 41 \in Nat
      OBVIOUS
    <3>2. 0 \in Nat
      OBVIOUS
    <3> QED BY <1>1, <1>2, <1>4, <3>1, <3>2 DEF Path, ReadPath
  <2>2. n \notin 1..21
    BY <1>1, <1>2, <1>3, <1>4 DEF Path, SeekPath
  <2>3. n \in 22..39
    BY <2>1, <2>2
  <2>4. 0 \in Nat
    OBVIOUS
  <2> QED BY <1>1, <1>2, <1>4, <2>3, <2>4 DEF Path, ReadPath
<1> QED BY <1>3, <1>4

(* Its answer, wherever it comes.                                          *)
LEMMA PathEnds ==
  ASSUME NEW f, Replies(f, 7), NEW lba, NEW m \in 1..24, NEW got, NEW sector, NEW n \in 22..39,
         sector = lba \/ f.result[1].v = 64
  PROVE  Path(n, lba, m, f, got, sector)
<1>1. 7 - 0 = 7
  OBVIOUS
<1>2. Answered(lba, f, got, sector, 0)
  BY <1>1 DEF Answered
<1>3. n \notin 1..21 /\ n \notin 40..48
  BY SMTT(30)
<1> QED BY <1>2, <1>3 DEF Path, SeekPath, ReadPath

(* A transfer that fails answers with status 64, which its read takes for  *)
(* a failure.                                                              *)
LEMMA PathFails ==
  ASSUME Controller(fdc), NEW lba, NEW m \in 1..24, NEW got, NEW sector, NEW n \in 1..48, FdcFails,
         Path(n, lba, m, fdc, got, sector), fdc.bytes[1] \in Byte
  PROVE  Controller(fdc') /\ fdc'.dor = fdc.dor /\ Path(n, lba, m, fdc', got, sector)
<1>1. n \in 22..39
  BY TransferPlace DEF FdcFails
<1>2. PICK st1 \in {2, 4} :
        fdc' = Replied([fdc EXCEPT !.bytes = <<>>], fdc.bytes[1] % 32, <<64, st1, 0, 0, 0, 1, 2>>)
  BY DEF FdcFails
<1> DEFINE values == <<64, st1, 0, 0, 0, 1, 2>>
           of == fdc.bytes[1] % 32
           f == [fdc EXCEPT !.bytes = <<>>]
<1>3. of \in Int
  <2>1. \A b \in 0..255 : b % 32 \in Int
    OBVIOUS
  <2> QED BY <2>1 DEF Byte
<1>4. values \in Seq(Byte) /\ Len(values) = 7 /\ values[1] = 64
  <2>1. {0, 1, 2, 64} \subseteq Byte /\ st1 \in Byte
    BY DEF Byte
  <2> QED BY <2>1
<1> HIDE DEF values, of
<1>5. fdc' = Replied(f, of, values)
  BY <1>2 DEF values, of
<1>6. f = [fdc EXCEPT !.bytes = <<>>] /\ Len(values) > 0
  BY <1>4
<1> HIDE DEF f
<1>7. Controller(fdc') /\ Replies(fdc', Len(values)) /\ fdc'.result[1].v = values[1] /\ fdc'.dor = fdc.dor
  BY <1>3, <1>4, <1>5, <1>6, EndedTransfer, Zenon
<1>8. Replies(fdc', 7) /\ fdc'.result[1].v = 64
  BY <1>4, <1>7
<1> QED BY <1>1, <1>7, <1>8, PathEnds

(* Only the sector's own READ DATA can succeed.                            *)
LEMMA PathRead ==
  ASSUME Controller(fdc), NEW lba \in 0 .. Sectors - 1, NEW m \in 1..24, NEW got, NEW sector,
         NEW n \in 1..48, FdcRead, Path(n, lba, m, fdc, got, sector)
  PROVE  /\ Controller(fdc') /\ fdc'.dor = fdc.dor /\ n = 39 /\ Addressed = lba
         /\ Path(n, lba, m, fdc', got, lba)
<1> DEFINE chs == LbaToChs(lba)
           b == ReadBytes(chs)
<1>1. fdc.phase = "execute" /\ fdc.bytes[1] % 32 = 6
  BY DEF FdcRead, ReadCommand
<1>2. fdc.bytes[1] # 2
  <2>1. 2 % 32 = 2
    OBVIOUS
  <2> QED BY <1>1, <2>1
<1>3. n = 39 /\ fdc.bytes = b
  BY <1>1, <1>2, TransferPlace DEF TrackTransfer
<1>4. b[1] = 198 /\ b[3] = chs.cyl /\ b[4] = chs.head /\ b[5] = chs.sector
  BY DEF ReadBytes
<1>5. Addressed = lba
  BY <1>3, <1>4, SectorPlace DEF Addressed
<1>6. b \in Seq(Byte) /\ Len(b) = 9
  BY SectorBytes
<1> HIDE DEF b, chs
<1> DEFINE mid == SubSeq(b, 3, 5)
           zeros == <<0, 0, 0>>
           size == <<2>>
           start == zeros \o mid
           values == start \o size
           of == fdc.bytes[1] % 32
           f == [fdc EXCEPT !.bytes = <<>>]
<1>7. mid \in Seq(Byte) /\ Len(mid) = 3
  <2>1. \A i \in 3..5 : b[i] \in Byte
    BY <1>6, Elements, SMTT(30)
  <2>2. SubSeq(b, 3, 5) \in Seq(Byte) /\ Len(SubSeq(b, 3, 5)) = IF 3 <= 5 THEN 5 - 3 + 1 ELSE 0
    BY ONLY <2>1, SubSeqProperties
  <2> QED BY <2>2
<1> HIDE DEF mid
<1>8. zeros \in Seq(Byte) /\ Len(zeros) = 3 /\ size \in Seq(Byte) /\ Len(size) = 1
  BY DEF Byte
<1> HIDE DEF zeros, size
<1>9. start \in Seq(Byte) /\ Len(start) = 6
  <2>1. start \in Seq(Byte) /\ Len(start) = Len(zeros) + Len(mid)
    BY <1>7, <1>8, ConcatProperties, Zenon
  <2> QED BY <1>7, <1>8, <2>1
<1> HIDE DEF start
<1>10. values \in Seq(Byte) /\ Len(values) = 7
  <2>1. values \in Seq(Byte) /\ Len(values) = Len(start) + Len(size)
    BY <1>8, <1>9, ConcatProperties, Zenon
  <2> QED BY <1>8, <1>9, <2>1
<1>11. fdc' = Replied(f, of, values)
  BY <1>3 DEF FdcRead, Finished, start, mid, zeros, size
<1>12. of \in Int
  BY <1>1
<1>13. f = [fdc EXCEPT !.bytes = <<>>]
  OBVIOUS
<1> HIDE DEF values, of, f
<1>14. Len(values) > 0
  BY <1>10
<1>15. Controller(fdc') /\ Replies(fdc', Len(values)) /\ fdc'.dor = fdc.dor
  BY <1>10, <1>11, <1>12, <1>13, <1>14, EndedTransfer, Zenon
<1>16. Replies(fdc', 7) /\ n \in 22..39
  BY <1>3, <1>10, <1>15, SMTT(30)
<1>17. Path(n, lba, m, fdc', got, lba)
  BY <1>16, PathEnds
<1> QED BY <1>3, <1>5, <1>15, <1>17

-----------------------------------------------------------------------------
(* The steps of main.                                                      *)

(* The commands of fpc_init, byte by byte, from whatever a pong has left.  *)
LEMMA MainSends ==
  ASSUME Controller(fdc), Rqm, NEW m \in {5, 7, 9, 13, 15, 21}, Left(m, fdc),
         NEW byte, fdc' = FdcWritten(byte),
         m = 5 => byte = 3, m = 7 => byte = 223, m = 9 => byte = 2,
         m = 13 => byte = 7, m = 15 => byte = 0, m = 21 => byte = 20
  PROVE  Left(m + 1, fdc')
<1>1. byte \in Byte
  <2>1. {0, 2, 3, 7, 20, 223} \subseteq Byte
    BY DEF Byte
  <2> QED BY <2>1
<1>2. ~Halted(fdc)
  BY DEF Halted, Rqm
<1>3. fdc.phase # "command" => fdc' = fdc
  BY <1>1, WrittenByte
<1>4. Pio(fdc) => Pio(fdc')
  BY <1>3 DEF Pio
<1>5. Replies(fdc, 1) => Replies(fdc', 1)
  BY <1>3 DEF Replies
<1>6. /\ byte \in {3, 7} /\ Collects(fdc, <<>>) => Collects(fdc', <<byte>>)
      /\ byte = 2 /\ Collects(fdc, <<>>) => ReadsTrack(fdc', 1)
      /\ byte \in {0, 20, 223} /\ Collects(fdc, <<>>) => Replies(fdc', 1)
  BY <1>1, FirstByte
<1>7. Collects(fdc, <<3>>) => Collects(fdc', <<3, byte>>)
  BY <1>1, SecondByte
<1>8. Collects(fdc, <<7>>) => Collects(fdc', <<>>)
  BY <1>1, SecondByte
<1>9. Collects(fdc, <<3, 223>>) => Collects(fdc', <<>>)
  BY <1>1, ThirdByte
<1>10. ASSUME NEW k \in 1..3, ReadsTrack(fdc, k)
       PROVE  ReadsTrack(fdc', k + 1)
  <2>1. k \in 1..8 /\ k < 8
    OBVIOUS
  <2> QED BY <1>1, <1>10, <2>1, TrackByte
<1>11. /\ ReadsTrack(fdc, 1) => ReadsTrack(fdc', 2)
       /\ ReadsTrack(fdc, 2) => ReadsTrack(fdc', 3)
       /\ ReadsTrack(fdc, 3) => ReadsTrack(fdc', 4)
  <2>1. 1 \in 1..3 /\ 2 \in 1..3 /\ 3 \in 1..3 /\ 1 + 1 = 2 /\ 2 + 1 = 3 /\ 3 + 1 = 4
    OBVIOUS
  <2>2. \A k \in 1..3 : ReadsTrack(fdc, k) => ReadsTrack(fdc', k + 1)
    BY <1>10
  <2>3. /\ ReadsTrack(fdc, 1) => ReadsTrack(fdc', 1 + 1)
        /\ ReadsTrack(fdc, 2) => ReadsTrack(fdc', 2 + 1)
        /\ ReadsTrack(fdc, 3) => ReadsTrack(fdc', 3 + 1)
    BY <2>1, <2>2
  <2> QED BY <2>1, <2>3
<1>12. CASE m = 5
  <2>1. Pio(fdc) \/ Collects(fdc, <<>>)
    BY <1>2, <1>12 DEF Left, InStep
  <2> QED BY <1>4, <1>6, <1>12, <2>1 DEF Left, InStep
<1>13. CASE m = 7
  <2>1. Pio(fdc) \/ Collects(fdc, <<>>) \/ Collects(fdc, <<3>>)
    BY <1>2, <1>13 DEF Left, InStep
  <2> QED BY <1>4, <1>6, <1>7, <1>13, <2>1 DEF Left, InStep
<1>14. CASE m = 9
  <2>1. Pio(fdc) \/ Collects(fdc, <<>>) \/ Collects(fdc, <<3, 223>>) \/ Replies(fdc, 1)
    BY <1>2, <1>14 DEF Left, InStep
  <2> QED BY <1>4, <1>5, <1>6, <1>9, <1>14, <2>1 DEF Left, InStep, TrackBytes
<1>15. CASE m = 13
  <2>1. Pio(fdc) \/ Collects(fdc, <<>>) \/ Replies(fdc, 1) \/ ReadsTrack(fdc, 1)
    BY <1>2, <1>15 DEF Left, InStep, TrackBytes
  <2> QED BY <1>4, <1>5, <1>6, <1>11, <1>15, <2>1 DEF Left, InStep, TrackBytes
<1>16. CASE m = 15
  <2>1. Pio(fdc) \/ Collects(fdc, <<>>) \/ Collects(fdc, <<7>>) \/ Replies(fdc, 1) \/ ReadsTrack(fdc, 2)
    BY <1>2, <1>16 DEF Left, InStep, TrackBytes
  <2> QED BY <1>4, <1>5, <1>6, <1>8, <1>11, <1>16, <2>1 DEF Left, InStep, TrackBytes
<1>17. CASE m = 21
  <2>1. Pio(fdc) \/ Collects(fdc, <<>>) \/ ReadsTrack(fdc, 3)
    BY <1>2, <1>17 DEF Left, InStep, TrackBytes
  <2> QED BY <1>4, <1>6, <1>11, <1>17, <2>1 DEF Left, InStep, TrackBytes
<1> QED BY <1>12, <1>13, <1>14, <1>15, <1>16, <1>17

(* A byte that fpc_init reads takes one from what the controller has to    *)
(* answer.                                                                 *)
LEMMA MainReads ==
  ASSUME Controller(fdc), NEW m \in {17, 18}, Left(m, fdc), fdc' = FdcTaken
  PROVE  Left(m + 1, fdc')
<1>1. Pio(fdc) \/ Collects(fdc, <<>>) \/ (m = 17 /\ Replies(fdc, 1)) \/ ReadsTrack(fdc, 3)
  BY DEF Left, InStep, TrackBytes
<1>2. fdc.phase # "result" => fdc' = fdc
  BY TakenByte
<1>3. Replies(fdc, 1) => Collects(fdc', <<>>)
  BY TakenByte
<1>4. Pio(fdc') \/ Collects(fdc', <<>>) \/ ReadsTrack(fdc', 3)
  BY <1>1, <1>2, <1>3 DEF Pio, Collects, ReadsTrack
<1> QED BY <1>4 DEF Left, InStep, TrackBytes

(* Waits, and what leaves the controller alone.                            *)
LEMMA MainRests ==
  ASSUME NEW f, NEW m \in {3, 4, 6, 8, 10, 11, 12, 14, 16, 19, 20, 22, 23}, Left(m, f),
         m = 4 => ~Halted(f)
  PROVE  Left(m + 1, f)
<1>1. m \in 10..23 => TrackBytes(m + 1) = TrackBytes(m)
  BY DEF TrackBytes
<1>2. CASE m \in {3, 4, 6, 8}
  BY <1>2 DEF Left
<1>3. CASE m \in {10, 11, 12, 14, 16, 19, 20, 22, 23}
  <2>1. /\ m + 1 \in 10..24 /\ m \notin {2, 3, 4, 6, 7, 8, 9}
        /\ (m \in 14..15 => m + 1 \in 14..15)
        /\ (m \in (8..17) \cup (22..24) => m + 1 \in (8..17) \cup (22..24))
        /\ TrackBytes(m + 1) = TrackBytes(m)
    BY <1>1, <1>3
  <2> QED BY <2>1 DEF Left
<1> QED BY <1>2, <1>3

(* The two writes of fpc_reset to the digital output register.             *)
LEMMA MainDor ==
  ASSUME Controller(fdc), NEW m \in {1, 2}, Left(m, fdc),
         fdc' = FdcDor(IF m = 1 THEN 0 ELSE 12)
  PROVE  Left(m + 1, fdc')
<1>1. CASE m = 1
  <2>1. Halted(fdc')
    BY <1>1, WrittenDor
  <2> QED BY <1>1, <2>1 DEF Left
<1>2. CASE m = 2
  <2>1. InStep(fdc) \/ Halted(fdc)
    BY <1>2 DEF Left
  <2>2. fdc' = FdcDor(12)
    BY <1>2
  <2>3. Halted(fdc) => Halted(fdc') /\ fdc'.phase = "starting"
    BY <2>2, WrittenDor
  <2>4. InStep(fdc) => InStep(fdc')
    <3>1. fdc.phase # "reset" => Same(fdc', fdc)
      BY <2>2, WrittenDor
    <3> QED BY <3>1 DEF InStep, Collects, Pio, Same
  <2> QED BY <1>2, <2>1, <2>3, <2>4 DEF Left
<1> QED BY <1>1, <1>2

-----------------------------------------------------------------------------
(* The inductive invariant.                                                *)

Reads == [on : BOOLEAN, lba : 0 .. Sectors - 1, next : 1..48, got : Seq(Status)]

(* The bytes fetched when fpc_read is at its place n.                      *)
Fetched(n) == IF n \in 14..15 THEN n - 13 ELSE IF n \in 42..48 THEN n - 41 ELSE 0

Typed ==
  /\ main \in 1..24 /\ pong \in Reads
  /\ ~pong.on => pong.lba = 0 /\ pong.next = 1
  /\ Len(pong.got) = Fetched(pong.next)
  /\ pongs \in 0..MaxPongs /\ early \in 0..pongs
  /\ floppy_state \in {OFF, ON} /\ floppy_irq_done \in BOOLEAN
  /\ floppy_dmabuf \in {NULL, DMABUF} /\ dma \in DmaChannel
  /\ irq6 \in BOOLEAN
  /\ DOMAIN ram = {NULL, DMABUF}
  /\ Controller(fdc)

(* The sector in the buffer; of a DMA controller that heeds its mode none  *)
(* is expected.                                                            *)
Buffered(lba) == IF DMA_HEEDS_MODE THEN lba ELSE ram[floppy_dmabuf]

Protocol ==
  IF pong.on THEN Path(pong.next, pong.lba, main, fdc, pong.got, Buffered(pong.lba))
             ELSE Left(main, fdc)

(* The channel is set to the buffer that fpc_read copies from: pong's      *)
(* handler is not interrupted.                                             *)
DmaSet == pong.next \in 21..48 => dma.address = floppy_dmabuf

Returned == outcome # NoOutcome => pong.on /\ pong.next = 48

(* Once fpc_init has its last operation on the motor behind it, the        *)
(* recorded state of the motor is wrong only between the two halves of     *)
(* fpc_motor.                                                              *)
MotorKnown ==
  main >= 21 =>
    /\ pong.next \in {1, 18} => (floppy_state = ON => MotorRuns)
    /\ pong.next \in {2, 19} => MotorRuns
    /\ pong.next \in (3..16) \cup (20..48) => floppy_state = ON /\ MotorRuns

FInv == Typed /\ Protocol /\ DmaSet /\ Returned /\ MotorKnown /\ SectorDelivered

(* fpc_read goes on to its place n, with g fetched.                        *)
Moved(n, g) ==
  /\ pong' \in Reads
  /\ pong'.on /\ pong'.lba = pong.lba /\ pong'.next = n /\ pong'.got = g

(* Moved, from the record that an action writes.                           *)
LEMMA ReadMoves ==
  ASSUME pong \in Reads, pong.on, NEW k \in Nat, pong.next + k \in 1..48
  PROVE  /\ pong' = [pong EXCEPT !.next = @ + k] => Moved(pong.next + k, pong.got)
         /\ \A g \in Seq(Status) :
               pong' = [pong EXCEPT !.next = @ + k, !.got = g] => Moved(pong.next + k, g)
<1>1. ASSUME pong' = [pong EXCEPT !.next = @ + k]
      PROVE  Moved(pong.next + k, pong.got)
  BY <1>1 DEF Moved, Reads
<1>2. ASSUME NEW g \in Seq(Status), pong' = [pong EXCEPT !.next = @ + k, !.got = g]
      PROVE  Moved(pong.next + k, g)
  BY <1>2 DEF Moved, Reads
<1> QED BY <1>1, <1>2

(* A step of fpc_read to its place n.                                      *)
LEMMA PongGoesOn ==
  ASSUME FInv, pong.on, pong.next # 48, NEW n \in 1..48, NEW g \in Seq(Status),
         Moved(n, g), Len(g) = Fetched(n),
         UNCHANGED <<main, pongs, early, ram, floppy_dmabuf, irq6, outcome>>,
         floppy_state' \in {OFF, ON}, floppy_irq_done' \in BOOLEAN, dma' \in DmaChannel,
         Controller(fdc'), Path(n, pong.lba, main, fdc', g, Buffered(pong.lba)),
         n \in 21..48 => dma'.address = floppy_dmabuf, MotorKnown'
  PROVE  FInv'
<1>1. /\ pong'.on /\ pong'.lba = pong.lba /\ pong'.next = n /\ pong'.got = g /\ pong' \in Reads
      /\ main' = main /\ ram' = ram /\ floppy_dmabuf' = floppy_dmabuf /\ outcome' = outcome
  BY DEF Moved
<1>2. Typed'
  BY <1>1 DEF FInv, Typed
<1>3. Protocol'
  BY <1>1 DEF Protocol, Buffered
<1>4. DmaSet'
  BY <1>1 DEF DmaSet
<1>5. outcome' = NoOutcome
  BY <1>1 DEF FInv, Returned
<1>6. Returned' /\ SectorDelivered'
  BY <1>5 DEF Returned, SectorDelivered, SectorCopied, NoOutcome, LEN
<1> QED BY <1>2, <1>3, <1>4, <1>6 DEF FInv

(* The same with the motor's state as it was.                              *)
LEMMA PongGoesOnQuietly ==
  ASSUME FInv, pong.on, pong.next \in (3..15) \cup (20..47), NEW g \in Seq(Status),
         Moved(pong.next + 1, g), Len(g) = Fetched(pong.next + 1),
         UNCHANGED <<main, pongs, early, ram, floppy_dmabuf, irq6, outcome, floppy_state>>,
         floppy_irq_done' \in BOOLEAN, dma' \in DmaChannel,
         Controller(fdc'), fdc'.dor = fdc.dor,
         Path(pong.next + 1, pong.lba, main, fdc', g, Buffered(pong.lba)),
         pong.next # 20 => dma' = dma, pong.next = 20 => dma'.address = floppy_dmabuf
  PROVE  FInv'
<1> DEFINE n == pong.next + 1
<1>1. \A k \in (3..15) \cup (20..47) :
        /\ k + 1 \in 1..48 /\ k + 1 \in (3..16) \cup (20..48) /\ k # 48
        /\ k + 1 \notin {1, 2, 18, 19}
        /\ (k + 1 \in 21..48 => k = 20 \/ k \in 21..48)
  OBVIOUS
<1>2. /\ n \in 1..48 /\ n \in (3..16) \cup (20..48) /\ pong.next # 48 /\ n \notin {1, 2, 18, 19}
      /\ (n \in 21..48 => pong.next = 20 \/ pong.next \in 21..48)
  BY <1>1
<1>3. n \in 21..48 => dma'.address = floppy_dmabuf
  BY <1>2 DEF FInv, DmaSet
<1>4. MotorKnown'
  <2>1. pong'.next = n /\ main' = main /\ floppy_state' = floppy_state /\ (MotorRuns' <=> MotorRuns)
    BY DEF MotorRuns, Moved
  <2>2. main >= 21 => floppy_state = ON /\ MotorRuns
    BY DEF FInv, MotorKnown
  <2> QED BY <1>2, <2>1, <2>2 DEF MotorKnown
<1>5. floppy_state' \in {OFF, ON}
  BY DEF FInv, Typed
<1> HIDE DEF n
<1>6. Moved(n, g) /\ Len(g) = Fetched(n)
      /\ Path(n, pong.lba, main, fdc', g, Buffered(pong.lba))
  BY DEF n
<1> QED BY <1>2, <1>3, <1>4, <1>5, <1>6, PongGoesOn

(* A step of main.                                                         *)
LEMMA MainGoesOn ==
  ASSUME FInv, ~pong.on, main \in 1..23, main' = main + 1,
         UNCHANGED <<pong, pongs, early, ram, irq6, outcome, floppy_irq_done, dma>>,
         floppy_state' \in {OFF, ON}, floppy_dmabuf' \in {NULL, DMABUF},
         Controller(fdc'), Left(main + 1, fdc'),
         main >= 21 => fdc'.dor = fdc.dor /\ floppy_state' = floppy_state,
         main = 20 => floppy_state' = OFF
  PROVE  FInv'
<1>1. Typed'
  BY DEF FInv, Typed
<1>2. Protocol'
  BY DEF Protocol, Buffered
<1>3. pong.next = 1 /\ outcome = NoOutcome
  BY DEF FInv, Typed, Returned
<1>4. DmaSet' /\ Returned' /\ SectorDelivered'
  BY <1>3 DEF DmaSet, Returned, SectorDelivered, SectorCopied, NoOutcome, LEN
<1>5. MotorKnown'
  <2>1. CASE main < 20
    <3>1. ~(main' >= 21)
      BY <2>1
    <3> QED BY <3>1 DEF MotorKnown
  <2>2. CASE main = 20
    <3>1. pong'.next = 1 /\ floppy_state' # ON
      BY <1>3, <2>2 DEF OFF, ON
    <3>2. 1 \notin {2, 19} /\ 1 \notin (3..16) \cup (20..48)
      OBVIOUS
    <3> QED BY <3>1, <3>2 DEF MotorKnown
  <2>3. CASE main >= 21
    <3>1. MotorRuns' <=> MotorRuns
      BY <2>3 DEF MotorRuns
    <3>2. floppy_state = ON => MotorRuns
      BY <1>3, <2>3 DEF FInv, MotorKnown
    <3>3. pong'.next = 1 /\ floppy_state' = floppy_state
      BY <1>3, <2>3
    <3>4. 1 \notin {2, 19} /\ 1 \notin (3..16) \cup (20..48)
      OBVIOUS
    <3> QED BY <3>1, <3>2, <3>3, <3>4 DEF MotorKnown
  <2> QED BY <2>1, <2>2, <2>3
<1> QED BY <1>1, <1>2, <1>4, <1>5 DEF FInv

-----------------------------------------------------------------------------
(* The invariant is inductive, action by action.                           *)

(* The places of fpc_read at which a byte is sent or a wait comes first.   *)
LEMMA SentPlaces ==
  \A n \in Sends \cup Awaits :
    /\ n \in 1..48 /\ n \in (3..15) \cup (20..47) /\ n # 20 /\ n # 48
    /\ Fetched(n) = 0 /\ Fetched(n + 1) = 0
BY DEF Sends, Awaits, Fetched

(* What the invariant says while pong reads, and while it does not.        *)
LEMMA PongReads ==
  ASSUME FInv, pong.on
  PROVE  /\ pong \in Reads /\ pong.lba \in 0 .. Sectors - 1 /\ pong.next \in 1..48
         /\ pong.got \in Seq(Status) /\ Len(pong.got) = Fetched(pong.next)
         /\ main \in 1..24 /\ Controller(fdc)
         /\ Path(pong.next, pong.lba, main, fdc, pong.got, Buffered(pong.lba))
         /\ floppy_state \in {OFF, ON} /\ floppy_irq_done \in BOOLEAN
         /\ floppy_dmabuf \in {NULL, DMABUF} /\ dma \in DmaChannel
BY DEF FInv, Typed, Protocol, Buffered, Reads

(* A step of pong's that leaves the controller alone.                      *)
Rests == {1, 2, 3, 10, 15, 16, 17, 18, 19, 20, 21, 40}
LEMMA PongRests ==
  ASSUME FInv, pong.on, pong.next \in Rests
  PROVE  Path(pong.next + 1, pong.lba, main, fdc, pong.got, Buffered(pong.lba))
<1>1. /\ Controller(fdc) /\ pong.lba \in 0 .. Sectors - 1 /\ main \in 1..24
      /\ Path(pong.next, pong.lba, main, fdc, pong.got, Buffered(pong.lba))
  BY PongReads
<1>2. \A lba \in 0 .. Sectors - 1, m \in 1..24, n \in Rests : \A got, sector :
        Path(n, lba, m, fdc, got, sector) => Path(n + 1, lba, m, fdc, got, sector)
  BY <1>1, PathRests DEF Rests
<1> QED BY <1>1, <1>2

(* Without a pong, the operation running is one of fpc_init's.             *)
LEMMA MainRunsFree ==
  ASSUME FInv, ~pong.on
  PROVE  /\ main \in 1..24 /\ Controller(fdc) /\ Left(main, fdc)
         /\ floppy_state \in {OFF, ON} /\ floppy_dmabuf \in {NULL, DMABUF}
         /\ outcome = NoOutcome
BY DEF FInv, Typed, Protocol, Buffered, Returned

(* fpc_wait between two commands: the path allows for it at every place.   *)
LEMMA FpcWaitKeeps == FInv /\ FpcWait => FInv'
<1> SUFFICES ASSUME FInv, FpcWait PROVE FInv'
  OBVIOUS
<1>1. /\ Running.do = "wait" /\ Rqm /\ Forward(1)
      /\ UNCHANGED <<pongs, early, ram, floppy_state, floppy_irq_done, floppy_dmabuf, dma, fdc, irq6, outcome>>
  BY DEF FpcWait, unmoved
<1>2. CASE pong.on
  <2> DEFINE n == pong.next
  <2>1. n \in Awaits
    BY <1>1, <1>2, PongReads, PongPlace
  <2>2. /\ n \in 1..48 /\ n \in (3..15) \cup (20..47) /\ n # 20 /\ n # 48
        /\ Fetched(n) = 0 /\ Fetched(n + 1) = 0
    BY <2>1, SentPlaces
  <2>3. Moved(n + 1, pong.got) /\ main' = main
    <3>1. pong' = [pong EXCEPT !.next = @ + 1] /\ main' = main
      BY <1>1, <1>2 DEF Forward
    <3>2. 1 \in Nat /\ n + 1 \in 1..48
      BY <2>2
    <3> QED BY <1>2, <3>1, <3>2, PongReads, ReadMoves
  <2>4. Path(n + 1, pong.lba, main, fdc', pong.got, Buffered(pong.lba))
    <3>1. fdc' = fdc
      BY <1>1
    <3>2. Path(n + 1, pong.lba, main, fdc, pong.got, Buffered(pong.lba))
      BY <1>1, <1>2, <2>1, PongReads, PathWaits
    <3> QED BY <3>1, <3>2
  <2>5. Len(pong.got) = Fetched(n + 1) /\ pong.got \in Seq(Status)
    BY <1>2, <2>2, PongReads
  <2>6. Controller(fdc') /\ fdc'.dor = fdc.dor
    BY <1>1, <1>2, PongReads
  <2> QED BY <1>1, <1>2, <2>2, <2>3, <2>4, <2>5, <2>6, PongReads, PongGoesOnQuietly
<1>3. CASE ~pong.on
  <2>1. main \in {4, 6, 8, 10, 14, 16, 22}
    BY <1>1, <1>3, MainRunsFree, MainPlace
  <2>2. main' = main + 1 /\ pong' = pong
    BY <1>1, <1>3 DEF Forward
  <2>3. ~Halted(fdc)
    BY <1>1 DEF Rqm, Halted
  <2>4. Left(main + 1, fdc)
    BY <1>3, <2>1, <2>3, MainRunsFree, MainRests
  <2> QED BY <1>1, <1>3, <2>1, <2>2, <2>4, MainRunsFree, MainGoesOn
<1> QED BY <1>2, <1>3

(* A byte to the FIFO: SeekSends and ReadSends for a pong, MainSends for   *)
(* main.                                                                   *)
LEMMA OutbKeeps == FInv /\ Outb => FInv'
<1> SUFFICES ASSUME FInv, Outb PROVE FInv'
  OBVIOUS
<1>1. /\ Running.do = "outb" /\ Rqm /\ fdc' = FdcWritten(Running.v) /\ Forward(1)
      /\ UNCHANGED <<pongs, early, ram, floppy_state, floppy_irq_done, floppy_dmabuf, dma, irq6, outcome>>
  BY DEF Outb, unmoved
<1>2. CASE pong.on
  <2> DEFINE n == pong.next
             chs == LbaToChs(pong.lba)
  <2>1. n \in Sends
    BY <1>1, <1>2, PongReads, PongPlace
  <2>2. /\ n \in 1..48 /\ n \in (3..15) \cup (20..47) /\ n # 20 /\ n # 48
        /\ Fetched(n) = 0 /\ Fetched(n + 1) = 0
    BY <2>1, SentPlaces
  <2>3. Moved(n + 1, pong.got) /\ main' = main
    <3>1. pong' = [pong EXCEPT !.next = @ + 1] /\ main' = main
      BY <1>1, <1>2 DEF Forward
    <3>2. 1 \in Nat /\ n + 1 \in 1..48
      BY <2>2
    <3> QED BY <1>2, <3>1, <3>2, PongReads, ReadMoves
  <2>4. fdc' = FdcWritten(Sent(n, chs)) /\ Sent(n, chs) \in Byte
    <3>1. Running = Op("outb", Sent(n, chs))
      BY <1>2, <2>1, <2>2, PongReads, PongRuns
    <3>2. Running.v = Sent(n, chs)
      BY <3>1 DEF Op
    <3>3. Sent(n, chs) \in Byte
      BY <1>2, <2>1, PongReads, SectorBytes
    <3> QED BY <1>1, <3>2, <3>3
  <2>5. Path(n + 1, pong.lba, main, fdc', pong.got, Buffered(pong.lba))
    <3>1. CASE n \in {4, 6, 8, 11}
      <4>1. SeekPath(n, pong.lba, main, fdc)
        BY <1>2, PongReads DEF Path
      <4>2. SeekPath(n + 1, pong.lba, main, fdc')
        BY <1>1, <1>2, <2>4, <3>1, <4>1, PongReads, SeekSends
      <4>3. n + 1 \notin 22..48
        BY <3>1
      <4> QED BY <4>2, <4>3 DEF Path, ReadPath
    <3>2. ASSUME NEW i \in 1..9, n = 20 + 2 * i
          PROVE  Path(n + 1, pong.lba, main, fdc', pong.got, Buffered(pong.lba))
      <4>1. ReadPath(20 + 2 * i, pong.lba, main, fdc, pong.got, Buffered(pong.lba))
        BY <1>2, <3>2, PongReads DEF Path
      <4>2. Sent(n, chs) = ReadBytes(chs)[i]
        <5>1. (n - 20) \div 2 = i /\ n \notin {4, 6, 8, 11}
          BY <3>2
        <5> QED BY <5>1 DEF Sent
      <4>3. fdc' = FdcWritten(ReadBytes(LbaToChs(pong.lba))[i])
        BY <2>4, <4>2, SMTT(30)
      <4>4. ReadPath(21 + 2 * i, pong.lba, main, fdc', pong.got, Buffered(pong.lba))
        BY <1>1, <1>2, <4>1, <4>3, PongReads, ReadSends
      <4>5. n + 1 = 21 + 2 * i /\ n + 1 \notin 1..21
        BY <3>2
      <4>6. SeekPath(n + 1, pong.lba, main, fdc')
        BY <4>5 DEF SeekPath
      <4> QED BY <4>4, <4>5, <4>6 DEF Path
    <3> QED BY <2>1, <3>1, <3>2 DEF Sends
  <2>6. Len(pong.got) = Fetched(n + 1) /\ pong.got \in Seq(Status)
    BY <1>2, <2>2, PongReads
  <2>7. Controller(fdc') /\ fdc'.dor = fdc.dor
    BY <1>2, <2>4, PongReads, WrittenByte
  <2> QED BY <1>1, <1>2, <2>2, <2>3, <2>5, <2>6, <2>7, PongReads, PongGoesOnQuietly
<1>3. CASE ~pong.on
  <2> DEFINE byte == Running.v
  <2>1. main \in {5, 7, 9, 13, 15, 21}
    BY <1>1, <1>3, MainRunsFree, MainPlace
  <2>2. main' = main + 1 /\ pong' = pong
    BY <1>1, <1>3 DEF Forward
  <2>3. /\ main = 5 => byte = 3
        /\ main = 7 => byte = 223
        /\ main = 9 => byte = 2
        /\ main = 13 => byte = 7
        /\ main = 15 => byte = 0
        /\ main = 21 => byte = 20
    BY <1>3, MainRunsFree, MainRuns DEF Op
  <2>4. byte \in Byte
    <3>1. {0, 2, 3, 7, 20, 223} \subseteq Byte
      BY DEF Byte
    <3> QED BY <2>1, <2>3, <3>1
  <2> HIDE DEF byte
  <2>5. fdc' = FdcWritten(byte)
    BY <1>1 DEF byte
  <2>6. Left(main + 1, fdc')
    BY <1>1, <1>3, <2>1, <2>3, <2>5, MainRunsFree, MainSends
  <2>7. Controller(fdc') /\ fdc'.dor = fdc.dor
    BY <1>3, <2>4, <2>5, MainRunsFree, WrittenByte
  <2> QED BY <1>1, <1>3, <2>1, <2>2, <2>6, <2>7, MainRunsFree, MainGoesOn
<1> QED BY <1>2, <1>3

(* A byte from the FIFO: SeekReads and StatusReads for a pong, MainReads   *)
(* for main.                                                               *)
LEMMA InbKeeps == FInv /\ Inb => FInv'
<1> SUFFICES ASSUME FInv, Inb PROVE FInv'
  OBVIOUS
<1>1. /\ Running.do = "inb" /\ Rqm /\ fdc' = FdcTaken
      /\ UNCHANGED <<pongs, early, ram, floppy_state, floppy_irq_done, floppy_dmabuf, dma, irq6, outcome>>
  BY DEF Inb, unmoved
<1>2. CASE pong.on
  <2> DEFINE n == pong.next
  <2>1. n \in {13, 14} \cup 41..47
    BY <1>1, <1>2, PongReads, PongPlace
  <2>2. PICK byte \in FdcBytes :
          pong' = [pong EXCEPT !.next = @ + 1, !.got = Append(@, byte)] /\ main' = main
    BY <1>2 DEF Inb
  <2> DEFINE g == Append(pong.got, byte)
  <2>3. byte \in Status /\ Controller(fdc') /\ fdc'.dor = fdc.dor
    BY <1>1, <1>2, PongReads, TakenByte
  <2>4. g \in Seq(Status) /\ Len(g) = Len(pong.got) + 1
    BY <1>2, <2>3, PongReads, AppendProperties
  <2>5. Len(g) = Fetched(n + 1)
    <3>1. \A k \in {13, 14} \cup 41..47 : Fetched(k) + 1 = Fetched(k + 1)
      BY DEF Fetched
    <3> QED BY <1>2, <2>1, <2>4, <3>1, PongReads
  <2>6. Moved(n + 1, g)
    <3>1. 1 \in Nat /\ n + 1 \in 1..48
      BY <2>1
    <3> QED BY <1>2, <2>2, <2>4, <3>1, PongReads, ReadMoves
  <2>7. Path(n + 1, pong.lba, main, fdc', g, Buffered(pong.lba))
    <3>1. CASE n \in {13, 14}
      <4>1. SeekPath(n, pong.lba, main, fdc)
        BY <1>2, PongReads DEF Path
      <4>2. SeekPath(n + 1, pong.lba, main, fdc')
        BY <1>1, <1>2, <3>1, <4>1, PongReads, SeekReads
      <4>3. n + 1 \notin 22..48
        BY <3>1
      <4> QED BY <4>2, <4>3 DEF Path, ReadPath
    <3>2. CASE n \in 41..47
      <4> DEFINE i == n - 41
      <4>1. i \in 0..6 /\ n = 41 + i /\ n + 1 = 42 + i /\ n + 1 \notin 1..21
        BY <3>2
      <4>2. Len(pong.got) = i
        <5>1. \A k \in 41..47 : Fetched(k) = k - 41
          BY DEF Fetched
        <5> QED BY <1>2, <3>2, <5>1, PongReads
      <4> HIDE DEF i
      <4>3. ReadPath(41 + i, pong.lba, main, fdc, pong.got, Buffered(pong.lba))
        BY <1>2, <4>1, PongReads DEF Path
      <4>4. ReadPath(42 + i, pong.lba, main, fdc', g, Buffered(pong.lba))
        BY <1>1, <1>2, <4>1, <4>2, <4>3, PongReads, StatusReads
      <4>5. SeekPath(n + 1, pong.lba, main, fdc')
        BY <4>1 DEF SeekPath
      <4> QED BY <4>1, <4>4, <4>5 DEF Path
    <3> QED BY <2>1, <3>1, <3>2
  <2>8. n \in (3..15) \cup (20..47) /\ n # 20
    BY <2>1
  <2> HIDE DEF g
  <2> QED BY <1>1, <1>2, <2>2, <2>3, <2>4, <2>5, <2>6, <2>7, <2>8, PongReads, PongGoesOnQuietly
<1>3. CASE ~pong.on
  <2>1. main \in {17, 18}
    BY <1>1, <1>3, MainRunsFree, MainPlace
  <2>2. main' = main + 1 /\ pong' = pong
    BY <1>3 DEF Inb, Forward
  <2>3. Left(main + 1, fdc') /\ Controller(fdc')
    BY <1>1, <1>3, <2>1, MainRunsFree, MainReads, TakenByte
  <2> QED BY <1>1, <1>3, <2>1, <2>2, <2>3, MainRunsFree, MainGoesOn
<1> QED BY <1>2, <1>3

(* Only fpc_reset writes the digital output register outside fpc_motor.    *)
LEMMA DorKeeps == FInv /\ Dor => FInv'
<1> SUFFICES ASSUME FInv, Dor PROVE FInv'
  OBVIOUS
<1>1. /\ Running.do = "dor" /\ fdc' = FdcDor(Running.v) /\ Forward(1)
      /\ UNCHANGED <<pongs, early, ram, floppy_state, floppy_irq_done, floppy_dmabuf, dma, irq6, outcome>>
  BY DEF Dor, unmoved
<1>2. ~pong.on
  BY <1>1, PongReads, PongPlace
<1>3. main \in {1, 2} /\ main' = main + 1 /\ pong' = pong
  BY <1>1, <1>2, MainRunsFree, MainPlace DEF Forward
<1>4. fdc' = FdcDor(IF main = 1 THEN 0 ELSE 12)
  BY <1>1, <1>2, <1>3, MainRunsFree, MainRuns DEF Op
<1>5. Left(main + 1, fdc')
  BY <1>2, <1>3, <1>4, MainRunsFree, MainDor
<1>6. Controller(fdc')
  <2>1. (IF main = 1 THEN 0 ELSE 12) \in {0, 12, 28}
    OBVIOUS
  <2> QED BY <1>2, <1>4, <2>1, MainRunsFree, WrittenDor
<1> QED BY <1>1, <1>2, <1>3, <1>5, <1>6, MainRunsFree, MainGoesOn

(* 28, which fpc_motor writes for on, has the motor's bit.                 *)
LEMMA MotorBit == (28 \div 16) % 2 = 1
OBVIOUS

(* The first half of fpc_motor: the write to the digital output register.  *)
LEMMA MotorKeeps == FInv /\ Motor => FInv'
<1> SUFFICES ASSUME FInv, Motor PROVE FInv'
  OBVIOUS
<1> DEFINE on == Running.v
           v == IF on = ON THEN 28 ELSE 12
<1>1. /\ Running.do = "motor" /\ Forward(1)
      /\ fdc' = IF floppy_state = on THEN fdc ELSE FdcDor(v)
      /\ UNCHANGED <<pongs, early, ram, floppy_state, floppy_irq_done, floppy_dmabuf, dma, irq6, outcome>>
  BY DEF Motor, unmoved
<1>2. v \in {12, 28} /\ v \in {0, 12, 28} /\ (on = ON => v = 28)
  OBVIOUS
<1> HIDE DEF on, v
<1>3. Controller(fdc) => Controller(fdc') /\ (fdc' = fdc \/ fdc'.dor = v)
  BY <1>1, <1>2, WrittenDor
<1>4. on = ON /\ (floppy_state = ON => MotorRuns) => MotorRuns'
  <2> SUFFICES ASSUME on = ON, floppy_state = ON => MotorRuns
               PROVE  MotorRuns'
    OBVIOUS
  <2>1. Controller(fdc)
    BY DEF FInv, Typed
  <2>2. CASE floppy_state = ON
    <3>1. fdc' = fdc /\ MotorRuns
      BY <1>1, <2>2
    <3> QED BY <3>1 DEF MotorRuns
  <2>3. CASE floppy_state # ON
    <3>1. fdc'.dor = 28
      BY <1>1, <1>2, <2>1, <2>3, WrittenDor
    <3> QED BY <3>1, MotorBit DEF MotorRuns
  <2> QED BY <2>2, <2>3
<1>5. CASE pong.on
  <2> DEFINE n == pong.next
  <2>1. n \in {1, 16, 18}
    BY <1>1, <1>5, PongReads, PongPlace
  <2>2. n \in {1, 18} => on = ON
    BY <1>5, <2>1, PongReads, PongRuns DEF Op, on
  <2>3. Moved(n + 1, pong.got) /\ main' = main
    <3>1. pong' = [pong EXCEPT !.next = @ + 1] /\ main' = main
      BY <1>1, <1>5 DEF Forward
    <3>2. 1 \in Nat /\ n + 1 \in 1..48
      BY <2>1
    <3> QED BY <1>5, <3>1, <3>2, PongReads, ReadMoves
  <2>4. Path(n + 1, pong.lba, main, fdc, pong.got, Buffered(pong.lba))
    <3>1. n \in Rests
      BY <2>1 DEF Rests
    <3> QED BY <1>5, <3>1, PongRests
  <2>5. Controller(fdc')
    BY <1>3, <1>5, PongReads
  <2>6. Path(n + 1, pong.lba, main, fdc', pong.got, Buffered(pong.lba))
    <3>1. CASE floppy_state = on
      BY <1>1, <2>4, <3>1
    <3>2. CASE floppy_state # on
      <4>1. fdc' = FdcDor(v) /\ n + 1 \in {2, 17, 19}
        BY <1>1, <2>1, <3>2
      <4> QED BY <1>2, <1>5, <2>4, <4>1, PongReads, PathMotor
    <3> QED BY <3>1, <3>2
  <2>7. MotorKnown'
    <3>1. pong'.next = n + 1 /\ main' = main /\ floppy_state' = floppy_state
      BY <1>1, <2>3 DEF Moved
    <3>2. n + 1 \in {2, 17, 19}
      BY <2>1
    <3>3. main >= 21 /\ n \in {1, 18} => MotorRuns'
      BY <1>4, <2>2 DEF FInv, MotorKnown
    <3>4. main >= 21 /\ n + 1 \in {2, 19} => MotorRuns'
      BY <2>1, <3>3
    <3>5. n + 1 \notin {1, 18} /\ n + 1 \notin (3..16) \cup (20..48)
      BY <3>2
    <3> QED BY <3>1, <3>4, <3>5 DEF MotorKnown
  <2>8. /\ n + 1 \in 1..48 /\ n # 48 /\ n + 1 \notin 21..48
        /\ pong.got \in Seq(Status) /\ Len(pong.got) = Fetched(n + 1)
    <3>1. \A k \in {1, 16, 18} : /\ Fetched(k) = Fetched(k + 1)
                                  /\ k + 1 \in 1..48 /\ k # 48 /\ k + 1 \notin 21..48
      BY DEF Fetched
    <3> QED BY <1>5, <2>1, <3>1, PongReads
  <2> QED BY <1>1, <1>5, <2>3, <2>5, <2>6, <2>7, <2>8, PongReads, PongGoesOn
<1>6. CASE ~pong.on
  <2>1. main \in {11, 19} /\ main' = main + 1 /\ pong' = pong
    BY <1>1, <1>6, MainRunsFree, MainPlace DEF Forward
  <2>2. Left(main, fdc')
    <3>1. CASE floppy_state = on
      BY <1>1, <1>6, <3>1, MainRunsFree
    <3>2. CASE floppy_state # on
      <4>1. fdc' = FdcDor(v) /\ 2 \in {2, 17, 19}
        BY <1>1, <3>2
      <4> QED BY <1>2, <1>6, <4>1, MainRunsFree, PathMotor
    <3> QED BY <3>1, <3>2
  <2>3. Left(main + 1, fdc')
    BY <2>1, <2>2, MainRests
  <2>4. Controller(fdc')
    BY <1>3, <1>6, MainRunsFree
  <2> QED BY <1>1, <1>6, <2>1, <2>3, <2>4, MainRunsFree, MainGoesOn
<1> QED BY <1>5, <1>6

(* The second half of fpc_motor: floppy_state is what was written.         *)
LEMMA MotorStateKeeps == FInv /\ MotorState => FInv'
<1> SUFFICES ASSUME FInv, MotorState PROVE FInv'
  OBVIOUS
<1>1. /\ Running.do = "floppy_state" /\ floppy_state' = Running.v /\ Forward(1)
      /\ UNCHANGED <<pongs, early, ram, floppy_irq_done, floppy_dmabuf, dma, fdc, irq6, outcome>>
  BY DEF MotorState, unmoved
<1>2. CASE pong.on
  <2> DEFINE n == pong.next
  <2>1. n \in {2, 17, 19}
    BY <1>1, <1>2, PongReads, PongPlace
  <2>2. floppy_state' = IF n = 17 THEN OFF ELSE ON
    BY <1>1, <1>2, <2>1, PongReads, PongRuns DEF Op
  <2>3. Moved(n + 1, pong.got) /\ main' = main
    <3>1. pong' = [pong EXCEPT !.next = @ + 1] /\ main' = main
      BY <1>1, <1>2 DEF Forward
    <3>2. 1 \in Nat /\ n + 1 \in 1..48
      BY <2>1
    <3> QED BY <1>2, <3>1, <3>2, PongReads, ReadMoves
  <2>4. Path(n + 1, pong.lba, main, fdc', pong.got, Buffered(pong.lba))
    <3>1. n \in Rests
      BY <2>1 DEF Rests
    <3>2. Path(n + 1, pong.lba, main, fdc, pong.got, Buffered(pong.lba))
      BY <1>2, <3>1, PongRests
    <3> QED BY <1>1, <3>2
  <2>5. MotorKnown'
    <3>1. pong'.next = n + 1 /\ main' = main /\ (MotorRuns' <=> MotorRuns)
      BY <1>1, <2>3 DEF Moved, MotorRuns
    <3>2. main >= 21 /\ n \in {2, 19} => MotorRuns
      BY DEF FInv, MotorKnown
    <3>3. n = 17 => floppy_state' # ON
      BY <2>2 DEF OFF, ON
    <3>4. /\ (n = 17 => n + 1 = 18) /\ (n # 17 => n + 1 \in {3, 20})
          /\ n + 1 \notin {2, 19}
      BY <2>1
    <3>5. CASE n = 17
      <4>1. pong'.next = 18 /\ 18 \notin {2, 19} /\ 18 \notin (3..16) \cup (20..48)
        BY <3>1, <3>5
      <4> QED BY <3>3, <3>5, <4>1 DEF MotorKnown
    <3>6. CASE n # 17
      <4>1. pong'.next \in {3, 20} /\ floppy_state' = ON /\ (main' >= 21 => MotorRuns')
        BY <2>1, <2>2, <3>1, <3>2, <3>4, <3>6
      <4> QED BY <4>1 DEF MotorKnown
    <3> QED BY <3>5, <3>6
  <2>6. /\ n + 1 \in 1..48 /\ n # 48 /\ n + 1 \notin 21..48
        /\ pong.got \in Seq(Status) /\ Len(pong.got) = Fetched(n + 1)
    <3>1. \A k \in {2, 17, 19} : /\ Fetched(k) = Fetched(k + 1)
                                  /\ k + 1 \in 1..48 /\ k # 48 /\ k + 1 \notin 21..48
      BY DEF Fetched
    <3> QED BY <1>2, <2>1, <3>1, PongReads
  <2>7. Controller(fdc') /\ floppy_state' \in {OFF, ON}
    BY <1>1, <1>2, <2>2, PongReads
  <2> QED BY <1>1, <1>2, <2>3, <2>4, <2>5, <2>6, <2>7, PongReads, PongGoesOn
<1>3. CASE ~pong.on
  <2>1. main \in {12, 20} /\ main' = main + 1 /\ pong' = pong
    BY <1>1, <1>3, MainRunsFree, MainPlace DEF Forward
  <2>2. floppy_state' = IF main = 12 THEN ON ELSE OFF
    BY <1>1, <1>3, <2>1, MainRunsFree, MainRuns DEF Op
  <2>3. Left(main + 1, fdc')
    BY <1>1, <1>3, <2>1, MainRunsFree, MainRests
  <2>4. ~(main >= 21) /\ Controller(fdc')
    BY <1>1, <1>3, <2>1, MainRunsFree
  <2> QED BY <1>1, <1>3, <2>1, <2>2, <2>3, <2>4, MainRunsFree, MainGoesOn
<1> QED BY <1>2, <1>3

(* floppy_irq_done = 0, in fpc_read.                                       *)
LEMMA ClearKeeps == FInv /\ Clear => FInv'
<1> SUFFICES ASSUME FInv, Clear PROVE FInv'
  OBVIOUS
<1>1. /\ Running.do = "clear" /\ floppy_irq_done' = FALSE /\ Forward(1)
      /\ UNCHANGED <<pongs, early, ram, floppy_state, floppy_dmabuf, dma, fdc, irq6, outcome>>
  BY DEF Clear, unmoved
<1>2. pong.on
  BY <1>1, MainRunsFree, MainPlace
<1> DEFINE n == pong.next
<1>3. n \in {3, 10, 21, 40}
  BY <1>1, <1>2, PongReads, PongPlace
<1>4. Moved(n + 1, pong.got) /\ main' = main
  <2>1. pong' = [pong EXCEPT !.next = @ + 1] /\ main' = main
    BY <1>1, <1>2 DEF Forward
  <2>2. 1 \in Nat /\ n + 1 \in 1..48
    BY <1>3
  <2> QED BY <1>2, <2>1, <2>2, PongReads, ReadMoves
<1>5. Path(n + 1, pong.lba, main, fdc', pong.got, Buffered(pong.lba))
  <2>1. n \in Rests
    BY <1>3 DEF Rests
  <2>2. Path(n + 1, pong.lba, main, fdc, pong.got, Buffered(pong.lba))
    BY <1>2, <2>1, PongRests
  <2> QED BY <1>1, <2>2
<1>6. /\ n \in (3..15) \cup (20..47) /\ n # 20
      /\ pong.got \in Seq(Status) /\ Len(pong.got) = Fetched(n + 1)
  <2>1. \A k \in {3, 10, 21, 40} : Fetched(k) = Fetched(k + 1)
    BY DEF Fetched
  <2> QED BY <1>2, <1>3, <2>1, PongReads
<1>7. Controller(fdc') /\ fdc'.dor = fdc.dor /\ floppy_irq_done' \in BOOLEAN
  BY <1>1, <1>2, PongReads
<1> QED BY <1>1, <1>2, <1>4, <1>5, <1>6, <1>7, PongReads, PongGoesOnQuietly

(* fpc_irq_wait, in fpc_init.                                              *)
LEMMA FpcIrqWaitKeeps == FInv /\ FpcIrqWait => FInv'
<1> SUFFICES ASSUME FInv, FpcIrqWait PROVE FInv'
  OBVIOUS
<1>1. /\ Running.do = "irq_wait" /\ Forward(1)
      /\ UNCHANGED <<pongs, early, ram, floppy_state, floppy_irq_done, floppy_dmabuf, dma, fdc, irq6, outcome>>
  BY DEF FpcIrqWait, unmoved
<1>2. ~pong.on
  BY <1>1, PongReads, PongPlace
<1>3. main = 3 /\ main' = main + 1 /\ pong' = pong
  BY <1>1, <1>2, MainRunsFree, MainPlace DEF Forward
<1>4. Left(main + 1, fdc') /\ Controller(fdc')
  BY <1>1, <1>2, <1>3, MainRunsFree, MainRests
<1> QED BY <1>1, <1>2, <1>3, <1>4, MainRunsFree, MainGoesOn

(* The end of fpc_init: the buffer is there from here on.                  *)
LEMMA SetDmabufKeeps == FInv /\ SetDmabuf => FInv'
<1> SUFFICES ASSUME FInv, SetDmabuf PROVE FInv'
  OBVIOUS
<1>1. /\ Running.do = "floppy_dmabuf" /\ floppy_dmabuf' = Running.v /\ Forward(1)
      /\ UNCHANGED <<pongs, early, ram, floppy_state, floppy_irq_done, dma, fdc, irq6, outcome>>
  BY DEF SetDmabuf, unmoved
<1>2. ~pong.on
  BY <1>1, PongReads, PongPlace
<1>3. main = 23 /\ main' = main + 1 /\ pong' = pong
  BY <1>1, <1>2, MainRunsFree, MainPlace DEF Forward
<1>4. floppy_dmabuf' = DMABUF
  BY <1>1, <1>2, <1>3, MainRunsFree, MainRuns DEF Op
<1>5. Left(main + 1, fdc') /\ Controller(fdc') /\ fdc'.dor = fdc.dor
  BY <1>1, <1>2, <1>3, MainRunsFree, MainRests
<1> QED BY <1>1, <1>2, <1>3, <1>4, <1>5, MainRunsFree, MainGoesOn

(* The DMA channel is set to the driver's buffer, whatever that is by      *)
(* then.                                                                   *)
LEMMA FloppyDmaInitKeeps == FInv /\ FloppyDmaInit => FInv'
<1> SUFFICES ASSUME FInv, FloppyDmaInit PROVE FInv'
  OBVIOUS
<1>1. /\ Running.do = "dma" /\ Forward(1)
      /\ dma' = [address |-> floppy_dmabuf, mode |-> IF Running.v # 0 THEN TO_MEM ELSE FROM_MEM]
      /\ UNCHANGED <<pongs, early, ram, floppy_state, floppy_irq_done, floppy_dmabuf, fdc, irq6, outcome>>
  BY DEF FloppyDmaInit, unmoved
<1>2. pong.on
  BY <1>1, MainRunsFree, MainPlace
<1> DEFINE n == pong.next
<1>3. n = 20
  BY <1>1, <1>2, PongReads, PongPlace
<1>4. Moved(n + 1, pong.got) /\ main' = main
  <2>1. pong' = [pong EXCEPT !.next = @ + 1] /\ main' = main
    BY <1>1, <1>2 DEF Forward
  <2>2. 1 \in Nat /\ n + 1 \in 1..48
    BY <1>3
  <2> QED BY <1>2, <2>1, <2>2, PongReads, ReadMoves
<1>5. Path(n + 1, pong.lba, main, fdc', pong.got, Buffered(pong.lba))
  <2>1. n \in Rests
    BY <1>3 DEF Rests
  <2>2. Path(n + 1, pong.lba, main, fdc, pong.got, Buffered(pong.lba))
    BY <1>2, <2>1, PongRests
  <2> QED BY <1>1, <2>2
<1>6. /\ n \in (3..15) \cup (20..47)
      /\ pong.got \in Seq(Status) /\ Len(pong.got) = Fetched(n + 1)
  <2>1. Fetched(20) = Fetched(20 + 1)
    BY DEF Fetched
  <2> QED BY <1>2, <1>3, <2>1, PongReads
<1>7. dma' \in DmaChannel /\ dma'.address = floppy_dmabuf
  <2>1. floppy_dmabuf \in {NULL, DMABUF}
    BY <1>2, PongReads
  <2> QED BY <1>1, <2>1 DEF DmaChannel
<1>8. Controller(fdc') /\ fdc'.dor = fdc.dor /\ n = 20
  BY <1>1, <1>2, <1>3, PongReads
<1> QED BY <1>1, <1>2, <1>4, <1>5, <1>6, <1>7, <1>8, PongReads, PongGoesOnQuietly

(* fpc_read has waited for the end of the transfer.                        *)
LEMMA ArrivedKeeps == FInv /\ Arrived => FInv'
<1> SUFFICES ASSUME FInv, Arrived PROVE FInv'
  OBVIOUS
<1>1. /\ Running.do = "arrived"
      /\ UNCHANGED <<main, pongs, early, ram, floppy_state, floppy_irq_done, floppy_dmabuf, dma, fdc, irq6, outcome>>
  BY DEF Arrived, unmoved
<1>2. pong.on
  BY <1>1, MainRunsFree, MainPlace
<1>3. pong.next = 15
  BY <1>1, <1>2, PongReads, PongPlace
<1>4. <<>> \in Seq(Status) /\ Len(<<>>) = 0
  BY EmptySeq
<1>5. PICK n \in {16, 18} : Moved(n, <<>>)
  <2>1. Len(FpcMotor(OFF)) = 2
    BY DEF FpcMotor
  <2>2. pong \in Reads /\ pong.next + 1 = 16 /\ pong.next + 1 + 2 = 18
    BY <1>2, <1>3, PongReads
  <2>3. PICK k \in {16, 18} : pong' = [pong EXCEPT !.got = <<>>, !.next = k]
    <3>1. pong' = [pong EXCEPT !.got = <<>>,
                     !.next = IF pong.got[2].v = Running.v THEN @ + 1 ELSE @ + 1 + 2]
      BY <2>1 DEF Arrived
    <3> QED BY <2>2, <3>1
  <2>4. Moved(k, <<>>)
    <3>1. k \in 1..48
      OBVIOUS
    <3>2. DOMAIN pong = {"on", "lba", "next", "got"}
      BY <2>2 DEF Reads
    <3>3. pong'.on = pong.on /\ pong'.lba = pong.lba /\ pong'.next = k /\ pong'.got = <<>>
      BY <2>3, <3>2
    <3>4. pong' \in Reads
      BY <1>4, <2>2, <2>3, <3>1 DEF Reads
    <3> QED BY <1>2, <3>3, <3>4 DEF Moved
  <2> QED BY <2>4
<1>6. Path(n, pong.lba, main, fdc', <<>>, Buffered(pong.lba))
  <2>1. pong.next \in {1, 2, 3, 10, 15, 16, 17, 18, 19, 20, 21, 40}
    BY <1>3
  <2>2. /\ Path(18, pong.lba, main, fdc, <<>>, Buffered(pong.lba))
        /\ Path(16, pong.lba, main, fdc, <<>>, Buffered(pong.lba))
    BY <1>2, <1>3, <2>1, PongReads, PathRests
  <2> QED BY <1>1, <1>5, <2>2
<1>7. MotorKnown'
  <2>1. pong'.next = n /\ main' = main /\ floppy_state' = floppy_state /\ (MotorRuns' <=> MotorRuns)
    BY <1>1, <1>5 DEF Moved, MotorRuns
  <2>2. main >= 21 => floppy_state = ON /\ MotorRuns
    <3>1. 15 \in (3..16) \cup (20..48)
      OBVIOUS
    <3> QED BY <1>3, <3>1 DEF FInv, MotorKnown
  <2> QED BY <2>1, <2>2 DEF MotorKnown
<1>8. /\ n \in 1..48 /\ Len(<<>>) = Fetched(n) /\ n \notin 21..48 /\ pong.next # 48
  BY <1>3, <1>4, <1>5 DEF Fetched
<1> QED BY <1>1, <1>2, <1>4, <1>5, <1>6, <1>7, <1>8, PongReads, PongGoesOn

(* A status of 64, abnormal termination, is an error for fpc_read.         *)
LEMMA AbnormalTermination ==
  ASSUME pong.got[1].v = 64
  PROVE  Error # 0
<1>1. AnyBit(64, {8, 64, 128})
  <2>1. (64 \div 64) % 2 = 1 /\ 64 \in {8, 64, 128}
    OBVIOUS
  <2> QED BY <2>1 DEF AnyBit
<1>2. [i \in 1..7 |-> pong.got[i].v][1] = 64
  OBVIOUS
<1> DEFINE status == [i \in 1..7 |-> pong.got[i].v]
<1>3. AnyBit(status[1], {8, 64, 128})
  BY <1>1, <1>2
<1> HIDE DEF status
<1>4. Error = IF AnyBit(status[2], {2}) THEN 2
              ELSE IF \/ AnyBit(status[1], {8, 64, 128}) \/ AnyBit(status[2], {1, 4, 16, 32, 128})
                      \/ AnyBit(status[3], {1, 2, 4, 16, 32, 64}) \/ status[7] # 2
                   THEN 1 ELSE 0
  BY DEF Error, status
<1> QED BY <1>3, <1>4

(* Error is one of the three values that fpc_read tells apart.             *)
LEMMA ErrorRange == Error \in {0, 1, 2}
BY DEF Error

(* fpc_read returns: without an error only if the first status byte is     *)
(* not 64, and then the sector is in the buffer.                           *)
LEMMA ReturnKeeps == FInv /\ Return => FInv'
<1> SUFFICES ASSUME FInv, Return PROVE FInv'
  OBVIOUS
<1>1. /\ Running.do = "return"
      /\ outcome' = IF Error = 0 THEN [returned |-> Running.v, copied |-> ram[floppy_dmabuf]]
                                 ELSE [returned |-> -Error, copied |-> Nothing]
      /\ UNCHANGED <<main, pong, pongs, early, ram, floppy_state, floppy_irq_done, floppy_dmabuf, dma, fdc, irq6>>
  BY DEF Return, unmoved
<1>2. pong.on
  BY <1>1, MainRunsFree, MainPlace
<1>3. pong.next = 48
  BY <1>1, <1>2, PongReads, PongPlace
<1>4. Typed' /\ Protocol' /\ DmaSet' /\ MotorKnown'
  <2>1. Typed'
    BY <1>1 DEF FInv, Typed
  <2>2. Protocol'
    BY <1>1 DEF FInv, Protocol, Buffered
  <2>3. DmaSet' /\ MotorKnown'
    BY <1>1 DEF FInv, DmaSet, MotorKnown, MotorRuns
  <2> QED BY <2>1, <2>2, <2>3
<1>5. Returned'
  BY <1>1, <1>2, <1>3 DEF Returned
<1>6. SectorDelivered'
  <2> SUFFICES ASSUME ~DMA_HEEDS_MODE, ~fdc.ndma, outcome'.returned = LEN
               PROVE  outcome'.copied = pong.lba
    BY <1>1 DEF SectorDelivered, SectorCopied
  <2>1. Error = 0
    <3>1. Error # 0 => outcome'.returned = -Error
      BY <1>1
    <3>2. \A e \in {1, 2} : -e # 512
      OBVIOUS
    <3> QED BY <3>1, <3>2, ErrorRange DEF LEN
  <2>2. Answered(pong.lba, fdc, pong.got, Buffered(pong.lba), 7)
    <3>1. 48 \in 41..48 /\ 48 - 41 = 7
      OBVIOUS
    <3>2. ReadPath(48, pong.lba, main, fdc, pong.got, Buffered(pong.lba))
      BY <1>2, <1>3, PongReads DEF Path
    <3> QED BY <3>1, <3>2 DEF ReadPath, Pio
  <2>3. ram[floppy_dmabuf] = pong.lba
    BY <2>1, <2>2, AbnormalTermination DEF Answered, Buffered
  <2> QED BY <1>1, <2>1, <2>3
<1> QED BY <1>4, <1>5, <1>6 DEF FInv

(* load goes on to the next sector, or pong ends: from the second sector   *)
(* on the controller is in step.                                           *)
LEMMA LoadNextKeeps == FInv /\ LoadNext => FInv'
<1> SUFFICES ASSUME FInv, LoadNext PROVE FInv'
  OBVIOUS
<1>1. /\ outcome # NoOutcome /\ outcome' = NoOutcome
      /\ pong' = IF pong.lba + 1 < Sectors
                 THEN [on |-> TRUE, lba |-> pong.lba + 1, next |-> 1, got |-> <<>>]
                 ELSE [on |-> FALSE, lba |-> 0, next |-> 1, got |-> <<>>]
      /\ ram' = [b \in DOMAIN ram |-> Nothing]
      /\ UNCHANGED <<pongs, early, main, floppy_state, floppy_irq_done, floppy_dmabuf, dma, fdc, irq6>>
  BY DEF LoadNext
<1>2. pong.on /\ pong.next = 48
  BY <1>1 DEF FInv, Returned
<1>3. InStep(fdc)
  <2>1. 48 \in 41..48 /\ 48 - 41 = 7 /\ ~(7 < 7)
    OBVIOUS
  <2>2. ReadPath(48, pong.lba, main, fdc, pong.got, Buffered(pong.lba))
    BY <1>2, PongReads DEF Path
  <2> QED BY <2>1, <2>2 DEF ReadPath, Answered, InStep
<1>4. <<>> \in Seq(Status) /\ Len(<<>>) = Fetched(1)
  BY EmptySeq DEF Fetched
<1>5. /\ pong' \in Reads /\ pong'.next = 1 /\ pong'.got = <<>>
      /\ pong'.on => pong'.lba # 0
      /\ ~pong'.on => pong'.lba = 0
  <2>1. pong.lba \in 0 .. Sectors - 1 /\ Sectors \in Nat \ {0}
    BY <1>2, PongReads, FloppyAssumption
  <2>2. CASE pong.lba + 1 < Sectors
    <3>1. pong' = [on |-> TRUE, lba |-> pong.lba + 1, next |-> 1, got |-> <<>>]
      BY <1>1, <2>2
    <3>2. pong.lba + 1 \in 0 .. Sectors - 1 /\ pong.lba + 1 # 0
      BY <2>1, <2>2
    <3> QED BY <1>4, <3>1, <3>2 DEF Reads
  <2>3. CASE ~(pong.lba + 1 < Sectors)
    <3>1. pong' = [on |-> FALSE, lba |-> 0, next |-> 1, got |-> <<>>]
      BY <1>1, <2>3
    <3>2. 0 \in 0 .. Sectors - 1
      BY <2>1
    <3> QED BY <1>4, <3>1, <3>2 DEF Reads
  <2> QED BY <2>2, <2>3
<1>6. Typed'
  BY <1>1, <1>4, <1>5 DEF FInv, Typed
<1>7. Protocol'
  <2>1. Path(1, pong'.lba, main, fdc, <<>>, Buffered(pong.lba)') \/ pong'.lba = 0
    BY <1>3 DEF Path, SeekPath, ReadPath
  <2>2. Left(main, fdc)
    BY <1>3 DEF Left
  <2> QED BY <1>1, <1>5, <2>1, <2>2 DEF Protocol, Buffered
<1>8. 1 \notin 21..48 /\ 1 \notin {2, 19} /\ 1 \notin (3..16) \cup (20..48) /\ 48 \in (3..16) \cup (20..48)
  OBVIOUS
<1>9. DmaSet' /\ Returned' /\ SectorDelivered'
  BY <1>1, <1>5, <1>8 DEF DmaSet, Returned, SectorDelivered, SectorCopied, NoOutcome, LEN
<1>10. MotorKnown'
  <2>1. main >= 21 => MotorRuns
    BY <1>2, <1>8 DEF FInv, MotorKnown
  <2>2. main' = main /\ (MotorRuns' <=> MotorRuns)
    BY <1>1 DEF MotorRuns
  <2> QED BY <1>5, <1>8, <2>1, <2>2 DEF MotorKnown
<1> QED BY <1>6, <1>7, <1>9, <1>10 DEF FInv

(* pong starts between any two operations of main, and finds what main     *)
(* has left.                                                               *)
LEMMA PongKeeps == FInv /\ Pong => FInv'
<1> SUFFICES ASSUME FInv, Pong PROVE FInv'
  OBVIOUS
<1>1. /\ ~pong.on /\ pongs < MaxPongs
      /\ early' = IF main \in DOMAIN FpcInit THEN early + 1 ELSE early
      /\ pongs' = pongs + 1
      /\ pong' = [pong EXCEPT !.on = TRUE]
      /\ UNCHANGED <<main, floppy_state, floppy_irq_done, floppy_dmabuf, dma, outcome, fdc, irq6, ram>>
  BY DEF Pong
<1>2. /\ pong' \in Reads /\ pong'.on /\ pong'.lba = 0 /\ pong'.next = 1 /\ pong'.got = pong.got
      /\ pong.next = 1
  BY <1>1 DEF FInv, Typed, Reads
<1>3. pongs' \in 0..MaxPongs /\ early' \in 0..pongs'
  BY <1>1, FloppyAssumption DEF FInv, Typed
<1>4. Typed'
  BY <1>1, <1>2, <1>3 DEF FInv, Typed
<1>5. Protocol'
  <2>1. Left(main, fdc)
    BY <1>1, MainRunsFree
  <2>2. Path(1, 0, main, fdc, pong.got, Buffered(0))
    BY <2>1 DEF Path, SeekPath, ReadPath
  <2> QED BY <1>1, <1>2, <2>2 DEF Protocol, Buffered
<1>6. DmaSet' /\ MotorKnown'
  BY <1>1, <1>2 DEF FInv, DmaSet, MotorKnown, MotorRuns
<1>7. outcome' = NoOutcome
  BY <1>1, MainRunsFree
<1>8. Returned' /\ SectorDelivered'
  BY <1>7 DEF Returned, SectorDelivered, SectorCopied, NoOutcome, LEN
<1> QED BY <1>4, <1>5, <1>6, <1>8 DEF FInv

(* fpc_irq sets the flag.                                                  *)
LEMMA FpcIrqKeeps == FInv /\ FpcIrq => FInv'
<1> SUFFICES ASSUME FInv, FpcIrq PROVE FInv'
  OBVIOUS
<1>1. /\ irq6' = FALSE /\ floppy_irq_done' = TRUE
      /\ UNCHANGED <<main, pong, pongs, early, floppy_state, floppy_dmabuf, dma, outcome, fdc, ram>>
  BY DEF FpcIrq
<1>2. Typed'
  BY <1>1 DEF FInv, Typed
<1>3. Protocol'
  BY <1>1 DEF FInv, Protocol, Buffered
<1>4. DmaSet' /\ Returned' /\ MotorKnown' /\ SectorDelivered'
  BY <1>1 DEF FInv, DmaSet, Returned, MotorKnown, MotorRuns, SectorDelivered, SectorCopied
<1> QED BY <1>2, <1>3, <1>4 DEF FInv

(* The controller's steps.                                                 *)
LEMMA ControllerGoesOn ==
  ASSUME FInv, UNCHANGED driver, irq6' \in BOOLEAN, DOMAIN ram' = DOMAIN ram,
         Controller(fdc'), fdc'.dor = fdc.dor,
         outcome = NoOutcome \/ fdc'.ndma = fdc.ndma,
         pong.on => Path(pong.next, pong.lba, main, fdc', pong.got, Buffered(pong.lba)'),
         ~pong.on => Left(main, fdc')
  PROVE  FInv'
<1>1. UNCHANGED <<main, pong, pongs, early, floppy_state, floppy_irq_done, floppy_dmabuf, dma, outcome>>
  BY DEF driver
<1>2. Typed'
  BY <1>1 DEF FInv, Typed
<1>3. Protocol'
  BY <1>1 DEF Protocol, Buffered
<1>4. DmaSet' /\ Returned' /\ MotorKnown'
  BY <1>1 DEF FInv, DmaSet, Returned, MotorKnown, MotorRuns
<1>5. SectorDelivered'
  BY <1>1 DEF FInv, SectorDelivered, SectorCopied, NoOutcome, LEN
<1> QED BY <1>2, <1>3, <1>4, <1>5 DEF FInv

(* The controller comes out of reset.                                      *)
LEMMA FdcReadyKeeps == FInv /\ FdcReady => FInv'
<1> SUFFICES ASSUME FInv, FdcReady PROVE FInv'
  OBVIOUS
<1>1. irq6' = TRUE /\ UNCHANGED driver /\ ram' = ram
  BY DEF FdcReady
<1>2. Controller(fdc) /\ main \in 1..24 /\ pong.next \in 1..48
  BY DEF FInv, Typed, Reads
<1>3. Controller(fdc') /\ fdc'.dor = fdc.dor /\ fdc'.ndma = fdc.ndma
  BY <1>2, ReadyController
<1>4. ASSUME pong.on
      PROVE  Path(pong.next, pong.lba, main, fdc', pong.got, Buffered(pong.lba)')
  <2>1. Buffered(pong.lba)' = Buffered(pong.lba)
    BY <1>1 DEF driver, Buffered
  <2> QED BY <1>2, <1>4, <2>1, PongReads, PathReady
<1>5. ASSUME ~pong.on
      PROVE  Left(main, fdc')
  BY <1>2, <1>5, MainRunsFree, PathReady
<1> QED BY <1>1, <1>3, <1>4, <1>5, ControllerGoesOn

(* The drive ends a seek.                                                  *)
LEMMA FdcSeekDoneKeeps == FInv /\ FdcSeekDone => FInv'
<1> SUFFICES ASSUME FInv, FdcSeekDone PROVE FInv'
  OBVIOUS
<1>1. irq6' = TRUE /\ UNCHANGED driver /\ ram' = ram
  BY DEF FdcSeekDone
<1>2. Controller(fdc') /\ fdc'.dor = fdc.dor /\ Same(fdc', fdc)
  BY SeekDoneController DEF FInv, Typed
<1>3. fdc'.ndma = fdc.ndma
  BY <1>2 DEF Same
<1>4. ASSUME pong.on
      PROVE  Path(pong.next, pong.lba, main, fdc', pong.got, Buffered(pong.lba)')
  <2>1. Buffered(pong.lba)' = Buffered(pong.lba)
    BY <1>1 DEF driver, Buffered
  <2> QED BY <1>2, <1>4, <2>1, PongReads, SamePath
<1>5. ASSUME ~pong.on
      PROVE  Left(main, fdc')
  BY <1>2, <1>5, MainRunsFree, SamePath
<1> QED BY <1>1, <1>2, <1>3, <1>4, <1>5, ControllerGoesOn

(* A transfer ends while pong reads, and before it returns.                *)
LEMMA TransferOfPong ==
  ASSUME FInv, fdc.phase = "execute"
  PROVE  /\ pong.on /\ pong.next \in 22..39 /\ outcome = NoOutcome
         /\ fdc.bytes[1] \in Byte
<1>1. pong.on
  BY MainRunsFree, TransferPlace
<1>2. /\ pong.next \in 22..39
      /\ TrackTransfer(fdc) \/ fdc.bytes = ReadBytes(LbaToChs(pong.lba))
  BY <1>1, PongReads, TransferPlace
<1>3. fdc.bytes[1] \in {2, 198}
  BY <1>2 DEF TrackTransfer, ReadBytes
<1>4. outcome = NoOutcome
  BY <1>2 DEF FInv, Returned
<1> QED BY <1>1, <1>2, <1>3, <1>4 DEF Byte

(* A transfer fails.                                                       *)
LEMMA FdcFailsKeeps == FInv /\ FdcFails => FInv'
<1> SUFFICES ASSUME FInv, FdcFails PROVE FInv'
  OBVIOUS
<1>1. irq6' = TRUE /\ UNCHANGED driver /\ ram' = ram /\ fdc.phase = "execute"
  BY DEF FdcFails
<1>2. pong.on /\ outcome = NoOutcome /\ fdc.bytes[1] \in Byte
  BY <1>1, TransferOfPong, Zenon
<1>3. /\ Controller(fdc') /\ fdc'.dor = fdc.dor
      /\ Path(pong.next, pong.lba, main, fdc', pong.got, Buffered(pong.lba))
  BY <1>2, PongReads, PathFails, Zenon
<1>4. Buffered(pong.lba)' = Buffered(pong.lba)
  BY <1>1 DEF driver, Buffered
<1> QED BY <1>1, <1>2, <1>3, <1>4, ControllerGoesOn

(* A transfer ends with its sector in the buffer, if the mode of the       *)
(* channel is not in its way: the one the read asked for, as SectorPlace   *)
(* has it.                                             *)
LEMMA FdcReadKeeps == FInv /\ FdcRead => FInv'
<1> SUFFICES ASSUME FInv, FdcRead PROVE FInv'
  OBVIOUS
<1>1. /\ irq6' = TRUE /\ UNCHANGED driver /\ fdc.phase = "execute"
      /\ ram' = IF DMA_HEEDS_MODE /\ dma.mode # TO_MEM THEN ram
                ELSE [ram EXCEPT ![dma.address] = Addressed]
  BY DEF FdcRead
<1>2. pong.on /\ outcome = NoOutcome
  BY <1>1, TransferOfPong
<1>3. /\ Controller(fdc') /\ fdc'.dor = fdc.dor /\ pong.next = 39 /\ Addressed = pong.lba
      /\ Path(pong.next, pong.lba, main, fdc', pong.got, pong.lba)
  BY <1>2, PongReads, PathRead
<1>4. dma.address = floppy_dmabuf
  BY <1>3 DEF FInv, DmaSet
<1>5. Buffered(pong.lba)' = pong.lba /\ DOMAIN ram' = DOMAIN ram
  <2>1. floppy_dmabuf \in DOMAIN ram
    BY DEF FInv, Typed
  <2>2. DOMAIN ram' = DOMAIN ram /\ (~DMA_HEEDS_MODE => ram'[floppy_dmabuf] = pong.lba)
    BY <1>1, <1>3, <1>4, <2>1
  <2>3. pong' = pong /\ floppy_dmabuf' = floppy_dmabuf
    BY <1>1 DEF driver
  <2> QED BY <2>2, <2>3 DEF Buffered
<1> QED BY <1>1, <1>2, <1>3, <1>5, ControllerGoesOn

-----------------------------------------------------------------------------
(* The theorems.                                                           *)

(* kernel_main has just come to fpc_init.                                  *)
LEMMA InitKeeps == Init => FInv
<1> SUFFICES ASSUME Init PROVE FInv
  OBVIOUS
<1>1. PICK track \in {0, 1} :
        fdc = [phase |-> "command", bytes |-> <<>>, result |-> <<>>, ndma |-> FALSE, seeking |-> Nothing,
               seekend |-> FALSE, sensei |-> 0, track |-> track, dor |-> 12]
  BY DEF Init
<1>2. Controller(fdc)
  <2>1. track \in Byte /\ <<>> \in Seq(Byte) /\ <<>> \in Seq(Status)
    BY DEF Byte
  <2> QED BY <1>1, <2>1 DEF Controller
<1>3. /\ pong \in Reads /\ ~pong.on /\ pong.lba = 0 /\ pong.next = 1
      /\ Len(pong.got) = 0 /\ Fetched(1) = 0
  <2>1. 0 \in 0 .. Sectors - 1 /\ <<>> \in Seq(Status)
    BY FloppyAssumption
  <2> QED BY <2>1 DEF Init, Reads, Fetched
<1>4. Typed
  <2>1. pongs \in 0..MaxPongs /\ early \in 0..pongs
    BY FloppyAssumption DEF Init
  <2>2. /\ main \in 1..24 /\ floppy_state \in {OFF, ON} /\ floppy_irq_done \in BOOLEAN
        /\ floppy_dmabuf \in {NULL, DMABUF} /\ dma \in DmaChannel /\ irq6 \in BOOLEAN
    <3>1. main = 1 /\ 1 \in 1..24
      BY DEF Init
    <3>2. dma \in DmaChannel
      BY DEF Init, DmaChannel
    <3> QED BY <3>1, <3>2, Zenon DEF Init
  <2>3. DOMAIN ram = {NULL, DMABUF}
    BY DEF Init
  <2> QED BY <1>2, <1>3, <2>1, <2>2, <2>3 DEF Typed
<1>5. Protocol
  <2>1. Collects(fdc, <<>>)
    BY <1>1 DEF Collects
  <2> QED BY <1>3, <2>1 DEF Protocol, Buffered, Left, InStep
<1>6. DmaSet /\ Returned /\ MotorKnown /\ SectorDelivered
  BY <1>3 DEF Init, DmaSet, Returned, MotorKnown, SectorDelivered, SectorCopied, NoOutcome, LEN
<1> QED BY <1>4, <1>5, <1>6 DEF FInv

(* One lemma for each action.                                              *)
LEMMA NextKeeps == FInv /\ [Next]_vars => FInv'
<1> SUFFICES ASSUME FInv, [Next]_vars PROVE FInv'
  OBVIOUS
<1>1. CASE UNCHANGED vars
  <2>1. UNCHANGED <<main, pong, pongs, early, floppy_state, floppy_irq_done, floppy_dmabuf, dma, outcome, fdc, irq6, ram>>
    BY <1>1 DEF vars, driver
  <2>2. Typed'
    BY <2>1 DEF FInv, Typed
  <2>3. Protocol'
    BY <2>1 DEF FInv, Protocol, Buffered
  <2>4. DmaSet' /\ Returned' /\ MotorKnown' /\ SectorDelivered'
    BY <2>1 DEF FInv, DmaSet, Returned, MotorKnown, MotorRuns, SectorDelivered, SectorCopied
  <2> QED BY <2>2, <2>3, <2>4 DEF FInv
<1>2. CASE DriverStep
  BY <1>2, FpcWaitKeeps, OutbKeeps, InbKeeps, DorKeeps, MotorKeeps, MotorStateKeeps, ClearKeeps,
     FpcIrqWaitKeeps, SetDmabufKeeps, FloppyDmaInitKeeps, ArrivedKeeps, ReturnKeeps, LoadNextKeeps
     DEF DriverStep
<1>3. CASE FdcStep
  BY <1>3, FdcReadyKeeps, FdcSeekDoneKeeps, FdcReadKeeps, FdcFailsKeeps DEF FdcStep
<1>4. CASE Spin
  BY <1>1, <1>4 DEF Spin
<1>5. CASE Pong
  BY <1>5, PongKeeps
<1>6. CASE FpcIrq
  BY <1>6, FpcIrqKeeps
<1> QED BY <1>1, <1>2, <1>3, <1>4, <1>5, <1>6 DEF Next

(* The invariant, for any number of pongs and wherever they come.          *)
LEMMA InvariantHolds == Spec => []FInv
BY InitKeeps, NextKeeps, PTL DEF Spec

(* Whatever pongs come in the middle of fpc_init, and for any disk of at   *)
(* most 80 cylinders, driver and controller keep their types: in           *)
(* particular no answer is longer than the driver reads, and every value   *)
(* sent is a byte.                                                         *)
THEOREM TypeCorrect == Spec => []TypeOK
<1>1. FInv => TypeOK
  <2> SUFFICES ASSUME FInv PROVE TypeOK
    OBVIOUS
  <2>1. main \in 1 .. Len(FpcInit) + 1
    <3>1. Len(FpcInit) + 1 = 24
      BY InitPlaces
    <3> QED BY <3>1 DEF FInv, Typed
  <2>2. pong.on \in BOOLEAN /\ pong.lba \in 0 .. Sectors - 1 /\ pong.next \in 1..48
        /\ pong.got \in Seq(Status) /\ Len(pong.got) = Fetched(pong.next)
    BY DEF FInv, Typed, Reads
  <2>3. pong.next \in DOMAIN FpcReads[pong.lba]
    BY <2>2, ReadPlaces
  <2>4. Len(pong.got) <= 7
    <3>1. \A n \in 1..48 : Fetched(n) <= 7
      BY DEF Fetched
    <3> QED BY <2>2, <3>1
  <2>5. fdc.phase \in {"reset", "starting", "command", "execute", "result", "pio"}
        /\ (fdc.phase = "result" <=> fdc.result # <<>>)
    BY DEF FInv, Typed, Controller
  <2> QED BY <2>1, <2>2, <2>3, <2>4, <2>5 DEF FInv, Typed, TypeOK, Status
<1> QED BY <1>1, InvariantHolds, PTL

(* fpc_read, with a DMA controller that leaves the direction to the floppy *)
(* controller: a read that reports success, with the latter in DMA mode,   *)
(* has copied the sector that was asked for.  It holds although the        *)
(* answer to LOCK is never read and the first read may find any remains    *)
(* of fpc_init's commands in the controller.                               *)
THEOREM ReadsDeliverTheSector == Spec => []SectorDelivered
<1>1. FInv => SectorDelivered
  BY DEF FInv
<1> QED BY <1>1, InvariantHolds, PTL

(* fpc_read: after fpc_init, the motor runs whenever a transfer does,      *)
(* though floppy_state is all that the driver asks before it leaves        *)
(* fpc_motor out.                                                          *)
THEOREM TransfersFindTheMotorOn == Spec => []MotorOn
<1>1. FInv => MotorOn
  <2> SUFFICES ASSUME FInv, main \notin DOMAIN FpcInit, fdc.phase = "execute"
               PROVE  MotorRuns
    BY DEF MotorOn
  <2>1. main = 24
    BY InitPlaces DEF FInv, Typed
  <2>2. pong.next \in (3..16) \cup (20..48)
    <3>1. pong.next \in 22..39
      BY TransferOfPong
    <3> QED BY <3>1
  <2> QED BY <2>1, <2>2 DEF FInv, MotorKnown
<1> QED BY <1>1, InvariantHolds, PTL
=============================================================================
