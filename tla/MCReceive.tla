------------------------------ MODULE MCReceive -------------------------------
\* Instances of Receive for TLC.
EXTENDS Receive

\* A small message and one that fills the limit of three bytes.
SmallAndLarge == <<1, 2>>
=============================================================================
