------------------------------ MODULE GuestIPsMC ------------------------------
EXTENDS GuestIPs
MCDelay == <<1, 2>>
=============================================================================
