------------------------------ MODULE MCLowering ------------------------------
EXTENDS Lowering
===============================================================================
