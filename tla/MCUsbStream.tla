------------------------------ MODULE MCUsbStream ------------------------------
(* One PCM for playback and one for capture; the driver's counter wraps within *)
(* the run, at 4.                                                              *)
EXTENDS UsbStream
=============================================================================
