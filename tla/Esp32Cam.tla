------------------------------ MODULE Esp32Cam ------------------------------
(***************************************************************************)
(* The driver of the camera module, esp32cam.c: what each call returns for *)
(* what the SPI bus and the ESP32 answer.  The driver keeps no state.      *)
(*                                                                         *)
(* A transfer ends with 0 or an error of the bus.  The status of a command *)
(* is the byte received while the command byte is sent.                    *)
(***************************************************************************)
EXTENDS Naturals

CONSTANT MaxLength   \* the longest image accepted: 1024 * 1024 in the code

ASSUME MaxLengthAssumption == MaxLength \in Nat

Errors == {"-ENODEV", "-EIO", "-EINVAL", "-ETIMEDOUT"}
Transfers == {"0", "-ENODEV", "-EIO", "-ETIMEDOUT"}
Statuses == {"NOT_RESPONDING", "ACK", "ERR", "CAMERA_ACCESS_FAILED"}

\* esp32cam_spi_send_cmd()
SendCmd(transfer, status) ==
  IF transfer = "0" /\ status = "NOT_RESPONDING" THEN "-ENODEV" ELSE transfer

\* esp32cam_turn_on(), _turn_off(), _flash_on() and _flash_off()
Switch(transfer, status) ==
  IF SendCmd(transfer, status) = "0" /\ status # "ACK" THEN "-EIO" ELSE SendCmd(transfer, status)

\* esp32cam_spi_read()
SpiRead(transfer) == transfer

\* esp32cam_capture_length(): a command, then a transfer of the length.
CaptureLength(transfer, status, second, length) ==
  IF Switch(transfer, status) # "0" THEN Switch(transfer, status)
  ELSE IF SpiRead(second) = "0" /\ length \notin 1..MaxLength THEN "-EINVAL" ELSE SpiRead(second)

\* All that it may return.
CaptureLengths(length) ==
  {CaptureLength(transfer, status, second, length) :
     transfer \in Transfers, status \in Statuses, second \in Transfers}

\* esp32cam_capture_read(), which has no status to check.
CaptureRead(transfer) == SpiRead(transfer)
=============================================================================
