\* Two requests at once; no more than three photos are ever added.
SPECIFICATION BoundedSpec
CONSTANTS
  i1 = i1  i2 = i2  i3 = i3  w1 = w1  w2 = w2
  p1 = p1  p2 = p2  d1 = d1  d2 = d2  a1 = a1  a2 = a2
  PhotoIds <- MCPhotoIds
  Workers <- MCWorkers
  Provinces <- MCProvinces
  Districts <- MCDistricts
  ProvinceOf <- MCProvinceOf
  Activities <- MCActivities
  MaxGallery = 2
SYMMETRY Symmetry
INVARIANTS LocationNeedsRace GalleryIsBounded PhotosHaveObjects ObjectsHavePhotos
PROPERTY LinksAreWhole
