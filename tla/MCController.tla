---------------------------- MODULE MCController ----------------------------
\* Model checking of Controller.
EXTENDS Controller
=============================================================================
