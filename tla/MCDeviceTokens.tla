--------------------------- MODULE MCDeviceTokens ---------------------------
EXTENDS DeviceTokens, TLC
=============================================================================
