---------------------------- MODULE MCDeviceNetwork ----------------------------
\* Two overlapping refreshes over two devices with a number and one without.
EXTENDS DeviceNetwork

CONSTANTS a1, a2, valve, r1, r2
==============================================================================
