-------------------------------- MODULE MCSio ---------------------------------
EXTENDS Sio
===============================================================================
