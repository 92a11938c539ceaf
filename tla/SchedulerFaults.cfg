\* One process, more parcels than a tick takes, two failures or restarts.
CONSTANTS
  Processes = {p1}
  MaxParcels = 3
  MaxJobs = 3
  Limit = 2
  BusCapacity = 2
  Registered = registered
  MaxMishaps = 2
SPECIFICATION FairSpec
CHECK_DEADLOCK FALSE
INVARIANTS OneJobPerParcel DispatchedOnce
PROPERTIES ParcelGetsJob
