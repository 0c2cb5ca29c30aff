--------------------------- MODULE MCEmissionMath ---------------------------
(* Bounded instance of EmissionCurve for TLC.                              *)
EXTENDS EmissionCurve

\* math.rs:47 says that below one half the logarithm is the "alternating series
\* u - u^2/2 + u^3/3 - ...", that is ln(1 + u), the inverse of the exponential.
LogInvertsExp ==
  LET share == DeviceShare(deviceWindow, networkWindow)
  IN  Near(exp_fp(ln_1p_fp(share)), FP_SCALE + share)
=============================================================================
