CONSTANTS
    dep = dep
    out = out
    rec = rec
    done1 = done1
    done2 = done2
    forged = forged
    noted = noted
    k1 = k1
    k2 = k2
    k3 = k3
    Movement = {dep, out, rec}
    DirectionOf <- MCDirectionOf
    Report = {done1, done2, forged, noted}
    ReportOf <- MCReportOf
    Key = {k1, k2, k3}
    NoReport = NoReport
    Call = {c1, c2, c3}
    MaxFaults = 1
    MaxUnparsed = 1
    MaxCrashes = 1
SPECIFICATION ProviderSpec
INVARIANT OneClaimAtATime
INVARIANT PostedPerKey
INVARIANT GenuineBeforeMoney
SYMMETRY Deliveries
CHECK_DEADLOCK FALSE
